---- MODULE Spec2Model ----
(***************************************************************************)
(* Krojanty: the capture rule-engine (src/src/capture.c) over the global   *)
(* board state declared in src/include/app.h, and the move protocol of     *)
(* src/src/net.c.                                                          *)
(*                                                                         *)
(* The program state is the set of C globals.  Each function is a pure     *)
(* operator from a state record to a state record, applied by one action.  *)
(* Spec: a driver in the style of tests/TestCapture.c sets up a position   *)
(* around a piece that has just moved and then calls                       *)
(* check_seltou_capture, check_linca_capture and check_auto_defeat.        *)
(* NetSpec: tokens arrive at gui_move_piece_callback and moves are handed  *)
(* to TCP_Send_Message.  CodecSpec: a move is encoded as a token and the   *)
(* token is decoded with the arithmetic of gui_move_piece_callback.        *)
(* SessionSpec: run_server or run_client sets a session up, its thread     *)
(* reads tokens with recv_move and queues them, the main loop runs the     *)
(* callbacks, and the session is ended; SessionFair adds that a thread     *)
(* that can run does run.  AiSpec: a GameState is taken of the globals and *)
(* an entry point of the search engine is called on it.  SelectSpec: the   *)
(* capture driver with a piece selected.  ArgsSpec: parse_args             *)
(* (src/src/args.c) is given a command line.  ClickSpec: click_to_cell     *)
(* (src/src/drawing.c) is given a click.                                   *)
(***************************************************************************)
EXTENDS Integers, Sequences, FiniteSets, TLC

VARIABLES
    pieces,          \* Piece pieces[20]: slot -> [row, col, color, type]
    piece_count,     \* int piece_count
    cell_control,    \* int cell_control[9][9]
    game_over,       \* int game_over
    selected_piece,  \* int selected_piece
    score_blue,      \* int score_blue
    score_red,       \* int score_red
    pieces_blue,     \* int pieces_blue
    pieces_red,      \* int pieces_red
    current_turn,    \* char current_turn
    turn_number,     \* int turn_number
    my_color,        \* char my_color: '\0' is ""
    g_socket,        \* SOCKET g_socket
    victory,         \* the calls of set_victory_message so far, in order
    wire,            \* the bytes handed to the connection so far, in order
    trace,           \* the array accesses and calls the code made, in order
    codec,           \* the move, its token and the decoded cells (CodecSpec)
    peer,            \* the program state of the other end of the connection
    session,         \* run_server / run_client, their thread and the connection
    ai,              \* a call of the search engine: its GameState and its Move
    args,            \* a call of parse_args: its argv and the args_t returned
    click,           \* a call of click_to_cell: the click, the widget, *row, *col
    moved,           \* the driver's index i of the piece that moved
    stage,           \* the driver's position: which calls were made
    calls,           \* the calls made so far: their names and arguments
    pre,             \* the program state right before the last call
    setup            \* the program state the driver set up

vars == <<pieces, piece_count, cell_control, game_over, selected_piece,
          score_blue, score_red, pieces_blue, pieces_red,
          current_turn, turn_number, my_color, g_socket, victory, wire, trace,
          codec, peer, session, ai, args, click, moved, stage, calls, pre, setup>>

----------------------------------------------------------------------------
(* Program constants *)

\* Piece pieces[20]
PiecesCap == 20
\* the highest row / column index of the board: r2 > 8
MaxCell == 8
\* the board's side: r1 < 9
BoardN == 9
\* #define INVALID_SOCKET -1
INVALID_SOCKET == -1

(* Bounds of the model *)

\* how many pieces besides the moved one an initial position holds
MaxOthers == 4
\* how far from a moved piece near a corner pieces stand, along its row and column
CrossReach == 2
\* how far from a moved piece in mid-board pieces stand along its row
LineReach == 3
\* the highest array index the moved piece starts at
MaxMovedIndex == 1
\* how many tokens are received and moves sent in one run of the protocol
MaxNetCalls == 2

----------------------------------------------------------------------------
(* Data *)

Slots == 0 .. (PiecesCap - 1)
Rows == 0 .. MaxCell
Cols == 0 .. MaxCell

\* a slot of the zero-initialised global array that was never written
ZeroPiece == [row |-> 0, col |-> 0, color |-> "", type |-> ""]

Piece(r, c, color, type) == [row |-> r, col |-> c, color |-> color, type |-> type]

\* the program state as one record, the argument and result of the operators
State ==
    [pieces |-> pieces, piece_count |-> piece_count, cell_control |-> cell_control,
     game_over |-> game_over, selected_piece |-> selected_piece,
     score_blue |-> score_blue, score_red |-> score_red,
     pieces_blue |-> pieces_blue, pieces_red |-> pieces_red,
     current_turn |-> current_turn, turn_number |-> turn_number,
     my_color |-> my_color, g_socket |-> g_socket,
     victory |-> victory, wire |-> wire, trace |-> trace]

Commit(s) ==
    /\ pieces' = s.pieces
    /\ piece_count' = s.piece_count
    /\ cell_control' = s.cell_control
    /\ game_over' = s.game_over
    /\ selected_piece' = s.selected_piece
    /\ score_blue' = s.score_blue
    /\ score_red' = s.score_red
    /\ pieces_blue' = s.pieces_blue
    /\ pieces_red' = s.pieces_red
    /\ current_turn' = s.current_turn
    /\ turn_number' = s.turn_number
    /\ my_color' = s.my_color
    /\ g_socket' = s.g_socket
    /\ victory' = s.victory
    /\ wire' = s.wire
    /\ trace' = s.trace

----------------------------------------------------------------------------
(* Helpers of the capture functions *)

\* int find_piece_at(int row, int col): the lowest live index on the cell, or -1
find_piece_at(s, row, col) ==
    LET hits == {i \in 0 .. (s.piece_count - 1) : s.pieces[i].row = row
                                                    /\ s.pieces[i].col = col}
    IN  IF hits = {} THEN -1 ELSE CHOOSE i \in hits : \A j \in hits : i <= j

\* void set_victory_message(gboolean blue_won, const char *reason)
set_victory_message(s, blue_won, reason) ==
    [s EXCEPT !.victory = Append(@, [blue_won |-> blue_won, reason |-> reason])]

\* char enemy = (ally == 'B') ? 'R' : 'B';
EnemyOf(ally) == IF ally = "B" THEN "R" ELSE "B"

\* mutant: the last piece is moved into the hole
RemovePiece_SwapLast(s, idx) ==
    [s EXCEPT !.pieces[idx] = s.pieces[s.piece_count - 1],
              !.piece_count = @ - 1]

\* for (int k = idx; k < piece_count - 1; ++k) pieces[k] = pieces[k+1]; --piece_count;
RemovePiece(s, idx) ==
    [s EXCEPT !.pieces = [k \in Slots |->
                             IF k >= idx /\ k < s.piece_count - 1
                             THEN s.pieces[k + 1] ELSE s.pieces[k]],
              !.piece_count = @ - 1]

\* if (selected_piece > idx) --selected_piece;
ShiftSelected(s, idx) ==
    IF s.selected_piece > idx THEN [s EXCEPT !.selected_piece = @ - 1] ELSE s

\* mutant: the capture forgets to reset the control of the cell
ClearControl_Skip(s, r, c) == s

\* one step of the trace: an access or a call, and its two arguments
Event(ev, a, b) == [ev |-> ev, a |-> a, b |-> b]

\* cell_control[r][c] = 0;  the trace keeps the indices of the access; a write
\* at an index outside the array does not land in cell_control
ClearControl(s, r, c) ==
    [s EXCEPT !.cell_control = IF r \in Rows /\ c \in Cols
                               THEN [@ EXCEPT ![r][c] = 0] ELSE @,
              !.trace = Append(@, Event("cell_control", r, c))]

\* mutant: the victory goes to the color whose King was captured
CaptureKing_LoserWins(s, idx) ==
    LET blue_king_captured == (s.pieces[idx].color = "B")
        s1 == set_victory_message(s, blue_king_captured, "")
        s2 == RemovePiece(s1, idx)
    IN  [s2 EXCEPT !.game_over = 1]

\* the King branch of both capture rules: victory message, removal, game_over = 1
CaptureKing(s, idx) ==
    LET blue_king_captured == (s.pieces[idx].color = "B")
        msg == IF blue_king_captured THEN "Le roi bleu a ete capture."
                                     ELSE "Le roi rouge a ete capture."
        s1 == set_victory_message(s, ~blue_king_captured, msg)
        s2 == RemovePiece(s1, idx)
    IN  [s2 EXCEPT !.game_over = 1]

----------------------------------------------------------------------------
(* void check_linca_capture(int moved_index) *)

\* int dr[4] = {-1, 1, 0, 0};
LincaDr(d) == <<-1, 1, 0, 0>>[d + 1]
\* mutant: the table of column steps never looks right
LincaDc_NoRight(d) == <<0, 0, -1, -1>>[d + 1]

\* int dc[4] = { 0, 0,-1, 1};
LincaDc(d) == <<0, 0, -1, 1>>[d + 1]

\* if (r2 < 0 || r2 > 8 || c2 < 0 || c2 > 8) continue;
LincaOffBoard(r2, c2) == r2 < 0 \/ r2 > MaxCell \/ c2 < 0 \/ c2 > MaxCell

\* mutant: the piece at distance 2 is not looked at
LincaMatch_NoAlly(s, idx1, idx2, ally, enemy) ==
    /\ idx1 >= 0
    /\ s.pieces[idx1].color = enemy

\* mutant: the color of the piece in between is not looked at
LincaMatch_AnyBetween(s, idx1, idx2, ally, enemy) ==
    /\ idx1 >= 0
    /\ idx2 >= 0
    /\ s.pieces[idx2].color = ally

\* mutant: any piece at distance 2 closes the sandwich
LincaMatch_AnyBehind(s, idx1, idx2, ally, enemy) ==
    /\ idx1 >= 0
    /\ s.pieces[idx1].color = enemy
    /\ idx2 >= 0

\* idx1 >= 0 && pieces[idx1].color == enemy && idx2 >= 0 && pieces[idx2].color == ally
LincaMatch(s, idx1, idx2, ally, enemy) ==
    /\ idx1 >= 0
    /\ s.pieces[idx1].color = enemy
    /\ idx2 >= 0
    /\ s.pieces[idx2].color = ally

\* mutant: the control of the captured piece's cell is cleared without the
\* test that the cell is on the board
LincaSoldier_Unguarded(s, idx1, r1, c1) ==
    ShiftSelected(RemovePiece(ClearControl(s, r1, c1), idx1), idx1)

\* the Soldier branch: clear the cell's control, remove, shift selected_piece
LincaSoldier(s, idx1, r1, c1) ==
    LET s1 == IF r1 >= 0 /\ r1 < BoardN /\ c1 >= 0 /\ c1 < BoardN
              THEN ClearControl(s, r1, c1) ELSE s
        s2 == RemovePiece(s1, idx1)
    IN  ShiftSelected(s2, idx1)

RECURSIVE LincaScan(_, _, _, _, _)

\* mutant: after the capture of a King the scan goes on with the next direction
LincaKing_ScanGoesOn(s, idx1, r, c, ally, d) ==
    LincaScan(CaptureKing(s, idx1), r, c, ally, d + 1)

\* the King branch: the victory, the removal, game_over = 1; return;
LincaKing(s, idx1, r, c, ally, d) == CaptureKing(s, idx1)

\* the loop over the four directions, restarted at d = 0 after each capture
LincaScan(s, r, c, ally, d) ==
    IF d >= 4 THEN s
    ELSE
      LET enemy == EnemyOf(ally)
          r1 == r + LincaDr(d)
          c1 == c + LincaDc(d)
          r2 == r + 2 * LincaDr(d)
          c2 == c + 2 * LincaDc(d)
      IN  IF LincaOffBoard(r2, c2) THEN LincaScan(s, r, c, ally, d + 1)
          ELSE
            LET idx1 == find_piece_at(s, r1, c1)
                idx2 == find_piece_at(s, r2, c2)
            IN  IF LincaMatch(s, idx1, idx2, ally, enemy)
                THEN IF s.pieces[idx1].type = "K"
                     THEN LincaKing(s, idx1, r, c, ally, d)
                     ELSE LincaScan(LincaSoldier(s, idx1, r1, c1), r, c, ally, 0)
                ELSE LincaScan(s, r, c, ally, d + 1)

check_linca_capture(s, moved_index) ==
    LET m == s.pieces[moved_index]
    IN  LincaScan(s, m.row, m.col, m.color, 0)

----------------------------------------------------------------------------
(* void check_auto_defeat(void) *)

\* the tallies of the loop over pieces[0 .. piece_count-1]
Tally(s, color, isKing) ==
    Cardinality({i \in 0 .. (s.piece_count - 1) :
                    /\ (s.pieces[i].color = "B") = (color = "B")
                    /\ (s.pieces[i].type = "K") = isKing})

\* mutant: the color reduced to one King and one Soldier is declared the winner
check_auto_defeat_LoserWins(s) ==
    LET s1 == IF s.game_over = 0 /\ Tally(s, "B", FALSE) = 1 /\ Tally(s, "B", TRUE) = 1
              THEN [set_victory_message(s, TRUE, "") EXCEPT !.game_over = 1]
              ELSE s
    IN  IF s1.game_over = 0 /\ Tally(s, "R", FALSE) = 1 /\ Tally(s, "R", TRUE) = 1
        THEN [set_victory_message(s1, FALSE, "") EXCEPT !.game_over = 1]
        ELSE s1

\* mutant: the two tests do not look at game_over
check_auto_defeat_Unguarded(s) ==
    LET s1 == IF Tally(s, "B", FALSE) = 1 /\ Tally(s, "B", TRUE) = 1
              THEN [set_victory_message(s, FALSE, "") EXCEPT !.game_over = 1]
              ELSE s
    IN  IF Tally(s, "R", FALSE) = 1 /\ Tally(s, "R", TRUE) = 1
        THEN [set_victory_message(s1, TRUE, "") EXCEPT !.game_over = 1]
        ELSE s1

check_auto_defeat(s) ==
    LET blue_count == Tally(s, "B", FALSE)
        blue_king  == Tally(s, "B", TRUE)
        red_count  == Tally(s, "R", FALSE)
        red_king   == Tally(s, "R", TRUE)
        s1 == IF s.game_over = 0 /\ blue_count = 1 /\ blue_king = 1
              THEN [set_victory_message(s, FALSE,
                        "Les bleus n'ont plus qu'un pion et un roi.")
                    EXCEPT !.game_over = 1]
              ELSE s
    IN  IF s1.game_over = 0 /\ red_count = 1 /\ red_king = 1
        THEN [set_victory_message(s1, TRUE,
                  "Les rouges n'ont plus qu'un pion et un roi.")
              EXCEPT !.game_over = 1]
        ELSE s1

----------------------------------------------------------------------------
(* void check_seltou_capture(int moved_index, int old_row, int old_col) *)

\* void update_scores(void): cells controlled plus Soldiers alive, per color,
\* and the pieces each color has left
update_scores(s) ==
    LET cells(v) == Cardinality({rc \in Rows \X Cols : s.cell_control[rc[1]][rc[2]] = v})
        live(color) == {i \in 0 .. (s.piece_count - 1) : s.pieces[i].color = color}
        soldiers(color) == {i \in live(color) : s.pieces[i].type = "P"}
    IN  [s EXCEPT !.score_blue = cells(1) + Cardinality(soldiers("B")),
                  !.score_red = cells(2) + Cardinality(soldiers("R")),
                  !.pieces_blue = Cardinality(live("B")),
                  !.pieces_red = Cardinality(live("R"))]

\* if (r != old_row) dr = (r > old_row) ? 1 : -1;   (and the same for dc)
SeltouStep(now, old) == IF now # old THEN (IF now > old THEN 1 ELSE -1) ELSE 0

\* mutant: only the zero vector is rejected, a diagonal one is followed
SeltouRejected_ZeroOnly(r, c, old_row, old_col) == r = old_row /\ c = old_col

\* if (r != old_row && c != old_col) return;  if (r == old_row && c == old_col) return;
SeltouRejected(r, c, old_row, old_col) ==
    \/ (r # old_row /\ c # old_col)
    \/ (r = old_row /\ c = old_col)

\* mutant: the last row and column count as outside the board
SeltouOffBoard_OffByOne(enemy_row, enemy_col) ==
    enemy_row < 0 \/ enemy_row >= MaxCell \/ enemy_col < 0 \/ enemy_col >= MaxCell

\* if (enemy_row < 0 || enemy_row > 8 || enemy_col < 0 || enemy_col > 8) return;
SeltouOffBoard(enemy_row, enemy_col) ==
    enemy_row < 0 \/ enemy_row > MaxCell \/ enemy_col < 0 \/ enemy_col > MaxCell

\* mutant: the cell behind the candidate is never looked at
SeltouProtected_Never(s, back_row, back_col, enemy) == FALSE

\* the cell behind the candidate is on the board and holds a piece of its color
SeltouProtected(s, back_row, back_col, enemy) ==
    /\ back_row >= 0 /\ back_row < BoardN /\ back_col >= 0 /\ back_col < BoardN
    /\ LET idx_back == find_piece_at(s, back_row, back_col)
       IN  idx_back >= 0 /\ s.pieces[idx_back].color = enemy

\* mutant: the auto-defeat check and the score update come before the removal
SeltouSoldier_ChecksFirst(s, idx_enemy, enemy_row, enemy_col) ==
    LET s1 == check_auto_defeat(update_scores(s))
        s2 == RemovePiece(ClearControl(s1, enemy_row, enemy_col), idx_enemy)
    IN  ShiftSelected(s2, idx_enemy)

\* the Soldier branch: clear control, remove, shift selection, scores, auto-defeat
SeltouSoldier(s, idx_enemy, enemy_row, enemy_col) ==
    LET s1 == ClearControl(s, enemy_row, enemy_col)
        s2 == RemovePiece(s1, idx_enemy)
        s3 == ShiftSelected(s2, idx_enemy)
        s4 == update_scores(s3)
    IN  check_auto_defeat(s4)

check_seltou_capture(s, moved_index, old_row, old_col) ==
    LET m == s.pieces[moved_index]
        ally == m.color
        enemy == EnemyOf(ally)
        r == m.row
        c == m.col
    IN  IF SeltouRejected(r, c, old_row, old_col) THEN s
        ELSE
          LET dr == SeltouStep(r, old_row)
              dc == SeltouStep(c, old_col)
              enemy_row == r + dr
              enemy_col == c + dc
          IN  IF SeltouOffBoard(enemy_row, enemy_col) THEN s
              ELSE
                LET idx_enemy == find_piece_at(s, enemy_row, enemy_col)
                IN  IF idx_enemy < 0 \/ s.pieces[idx_enemy].color # enemy THEN s
                    ELSE IF SeltouProtected(s, enemy_row + dr, enemy_col + dc, enemy)
                         THEN s
                    ELSE IF s.pieces[idx_enemy].type = "K"
                         THEN CaptureKing(s, idx_enemy)
                    ELSE SeltouSoldier(s, idx_enemy, enemy_row, enemy_col)

----------------------------------------------------------------------------
(* net.c: the 4-character move token.  A character is its ASCII code, a   *)
(* string the sequence of its characters before the terminating 0.         *)

\* 'A'
ChA == 65
\* '0'
Ch0 == 48
\* int N = 9;
NetN == 9
\* strlen(msg) != 4
TokenLen == 4

\* int toupper(int c)
toupper(ch) == IF ch >= 97 /\ ch <= 122 THEN ch - 32 ELSE ch

\* int from_col = toupper(msg[0]) - 'A';   (to_col alike)
DecodeCol(ch) == toupper(ch) - ChA

\* mutant: the digit is taken as the row counted from the top
DecodeRow_FromTop(ch) == ch - Ch0

\* int from_row = N - (msg[1] - '0');   (to_row alike)
DecodeRow(ch) == NetN - (ch - Ch0)

\* the origin and the destination cell a token names, as <<row, col>>
DecodeFrom(msg) == <<DecodeRow(msg[2]), DecodeCol(msg[1])>>
DecodeTo(msg) == <<DecodeRow(msg[4]), DecodeCol(msg[3])>>

\* the sender's side: 'A' + col, '0' + (9 - row)
EncodeCell(rc) == <<ChA + rc[2], Ch0 + (NetN - rc[1])>>
EncodeMove(from, to) == EncodeCell(from) \o EncodeCell(to)

----------------------------------------------------------------------------
(* int TCP_Send_Message(SOCKET s, const char* move) *)

\* a const char*: NULL, or a pointer to a string
NullMove == [null |-> TRUE, chars |-> <<>>]
Str(chars) == [null |-> FALSE, chars |-> chars]

\* mutant: only a string that is too short is refused
BadLength_ShortOnly(chars) == Len(chars) < TokenLen

\* strlen(move) != 4
BadLength(chars) == Len(chars) # TokenLen

\* send(s, buf, n, 0) on a connection that would take r bytes (r <= 0: an
\* error): an invalid socket takes nothing, and no call takes more than n
send(sock, n, r) == IF sock = INVALID_SOCKET THEN -1 ELSE IF r > n THEN n ELSE r

\* while (total < 4) { r = send(...); if (r <= 0) return -1; total += r; }
\* rets: what the successive calls of send would take
RECURSIVE SendLoop(_, _, _, _, _)
SendLoop(sock, chars, total, w, rets) ==
    IF total >= TokenLen THEN [ret |-> total, wire |-> w]
    ELSE LET r == send(sock, TokenLen - total, Head(rets))
         IN  IF r <= 0 THEN [ret |-> -1, wire |-> w]
             ELSE SendLoop(sock, chars, total + r,
                           w \o SubSeq(chars, total + 1, total + r), Tail(rets))

\* the value returned, and the bytes on the connection afterwards
TCP_Send_Message(w, sock, move, rets) ==
    IF move.null THEN [ret |-> -1, wire |-> w]
    ELSE IF BadLength(move.chars) THEN [ret |-> -1, wire |-> w]
    ELSE SendLoop(sock, move.chars, 0, w, rets)

----------------------------------------------------------------------------
(* gboolean gui_move_piece_callback(gpointer data) *)

Traced(s, ev, a, b) == [s EXCEPT !.trace = Append(@, Event(ev, a, b))]

\* the cells strictly between two cells of one row or one column
Between(from, to) ==
    {rc \in Rows \X Cols :
        \/ /\ rc[1] = from[1] /\ rc[1] = to[1]
           /\ \/ (from[2] < rc[2] /\ rc[2] < to[2])
              \/ (to[2] < rc[2] /\ rc[2] < from[2])
        \/ /\ rc[2] = from[2] /\ rc[2] = to[2]
           /\ \/ (from[1] < rc[1] /\ rc[1] < to[1])
              \/ (to[1] < rc[1] /\ rc[1] < from[1])}

\* int can_move(int idx, int to_row, int to_col): the piece is of the color to
\* move, the destination is another cell of the board on its row or column,
\* and that cell and the cells on the way are empty
can_move(s, idx, to_row, to_col) ==
    LET p == s.pieces[idx]
    IN  /\ p.color = s.current_turn
        /\ to_row \in Rows /\ to_col \in Cols
        /\ (p.row = to_row) # (p.col = to_col)
        /\ \A rc \in Between(<<p.row, p.col>>, <<to_row, to_col>>)
                       \cup {<<to_row, to_col>>} :
               find_piece_at(s, rc[1], rc[2]) = -1

\* void move_piece(int idx, int to_row, int to_col): the piece is put on the
\* destination, the two capture rules are applied, the turn passes and is
\* counted
move_piece(s, idx, to_row, to_col) ==
    LET old == s.pieces[idx]
        s1 == [s EXCEPT !.pieces[idx].row = to_row, !.pieces[idx].col = to_col]
        s2 == check_seltou_capture(s1, idx, old.row, old.col)
        s3 == check_linca_capture(s2, idx)
    IN  [s3 EXCEPT !.current_turn = EnemyOf(s.current_turn),
                   !.turn_number = s.turn_number + 1]

\* mutant: the piece in the first slot of the array is not found
NoPiece_OrFirst(piece_idx) == piece_idx <= 0

\* mutant: the refusal passes the turn
InvalidMove_TurnPasses(s) ==
    set_victory_message([s EXCEPT !.game_over = 1,
                                  !.current_turn = EnemyOf(s.current_turn),
                                  !.g_socket = INVALID_SOCKET],
                        s.my_color = "B", "")

\* mutant: the victory goes to the peer, and the socket is kept
InvalidMove_PeerWins(s) ==
    set_victory_message([s EXCEPT !.game_over = 1], s.my_color # "B", "")

\* invalid_move: game_over = 1; the local color wins; the socket is closed
InvalidMove(s) ==
    LET s1 == [s EXCEPT !.game_over = 1]
        s2 == set_victory_message(s1, s.my_color = "B",
                                  "L'adversaire a joue un coup invalide.")
    IN  IF s2.g_socket # INVALID_SOCKET
        THEN [Traced(s2, "close", s2.g_socket, 0) EXCEPT !.g_socket = INVALID_SOCKET]
        ELSE s2

\* if (piece_idx < 0)
NoPiece(piece_idx) == piece_idx < 0

\* if (pieces[piece_idx].color != current_turn)
WrongTurn(s, piece_idx) == s.pieces[piece_idx].color # s.current_turn

\* mutant: the legality checker is not asked
Forbidden_Never(s, piece_idx, to_row, to_col) == FALSE

\* if (!can_move(piece_idx, to_row, to_col))
Forbidden(s, piece_idx, to_row, to_col) == ~can_move(s, piece_idx, to_row, to_col)

\* mutant: only a payload that is too short is ignored
WrongLength_ShortOnly(msg) == Len(msg) < TokenLen

\* if (strlen(msg) != 4)
WrongLength(msg) == Len(msg) # TokenLen

gui_move_piece_callback(s, msg) ==
    IF WrongLength(msg) THEN s
    ELSE
      LET from_col == DecodeCol(msg[1])
          from_row == DecodeRow(msg[2])
          to_col == DecodeCol(msg[3])
          to_row == DecodeRow(msg[4])
          piece_idx == find_piece_at(s, from_row, from_col)
          s1 == Traced(s, "find_piece_at", from_row, from_col)
          s2 == Traced(s1, "color", piece_idx, 0)
          s3 == Traced(s2, "can_move", to_row, to_col)
          s4 == Traced(s3, "move_piece", to_row, to_col)
      IN  IF NoPiece(piece_idx) THEN InvalidMove(s1)
          ELSE IF WrongTurn(s, piece_idx) THEN InvalidMove(s2)
          ELSE IF Forbidden(s, piece_idx, to_row, to_col) THEN InvalidMove(s3)
          ELSE move_piece(s4, piece_idx, to_row, to_col)

----------------------------------------------------------------------------
(* The positions the driver sets up: a piece that has just moved and up to *)
(* MaxOthers pieces around it.  Near a corner the others stand on its row   *)
(* and column; in mid-board they stand in a line beside it, or diagonally.  *)
(* A moved piece may also stand outside the board, as in                   *)
(* test_seltou_out_of_bounds2 and test_seltou_out_of_bounds3.              *)

\* one step from the bottom-left corner's edges, and the mirror image
CornerCenters == {<<MaxCell - 1, 0>>, <<1, MaxCell>>}

MidCenter == <<4, 4>>

Abs(x) == IF x < 0 THEN -x ELSE x

\* the cells of the piece's row and column within CrossReach of it
Cross(ctr) ==
    {rc \in Rows \X Cols :
        /\ rc # ctr
        /\ \/ rc[1] = ctr[1] /\ Abs(rc[2] - ctr[2]) <= CrossReach
           \/ rc[2] = ctr[2] /\ Abs(rc[1] - ctr[1]) <= CrossReach}

\* the cells right of the piece, on its row, within LineReach
Line(ctr) == {rc \in Rows \X Cols : rc[1] = ctr[1] /\ rc[2] - ctr[2] \in 1 .. LineReach}

\* the four cells diagonally next to the piece
Diagonal(ctr) ==
    {rc \in Rows \X Cols : Abs(rc[1] - ctr[1]) = 1 /\ Abs(rc[2] - ctr[2]) = 1}

\* a moved piece two cells outside the board, above it and below it
OffBoardCenters == {<<-2, 0>>, <<BoardN + 1, MaxCell>>}

\* pieces[0].row = 2456000000; pieces[0].col = 4300000;  the row, converted
\* to a 32-bit int, is 2456000000 - 2^32
FarCenter == <<-1838967296, 4300000>>

\* the two cells between an off-board piece and the board's inside
Inward(ctr) ==
    {<<ctr[1] + k * (IF ctr[1] < 0 THEN 1 ELSE -1), ctr[2]>> : k \in 1 .. 2}

\* pieces[piece_count++] = (Piece){.row=-1, .col=0, ...}: a piece off the board
OffBoardCell == <<-1, 0>>

\* where the moved piece stands, and the cells the other pieces may stand on
Setups ==
    {[ctr |-> c, cells |-> Cross(c)] : c \in CornerCenters}
    \cup {[ctr |-> MidCenter, cells |-> Line(MidCenter)],
          [ctr |-> MidCenter, cells |-> Diagonal(MidCenter)]}
    \cup {[ctr |-> c, cells |-> Inward(c)] : c \in OffBoardCenters}
    \cup {[ctr |-> FarCenter, cells |-> {OffBoardCell}]}

\* what stands on a cell: nothing, an enemy Soldier or King, an allied Soldier
Contents == {"_", "ES", "EK", "AS"}

Occupied(f) == {rc \in DOMAIN f : f[rc] # "_"}

\* the cells of S in row-major order
RECURSIVE SortedCells(_)
SortedCells(S) ==
    IF S = {} THEN <<>>
    ELSE LET m == CHOOSE x \in S : \A y \in S :
                      x[1] * BoardN + x[2] <= y[1] * BoardN + y[2]
         IN  <<m>> \o SortedCells(S \ {m})

\* the piece the content code stands for, on cell rc, seen from the mover's color
PieceOn(f, rc, color) ==
    Piece(rc[1], rc[2],
          IF f[rc] = "AS" THEN color ELSE EnemyOf(color),
          IF f[rc] = "EK" THEN "K" ELSE "P")

\* pieces[piece_count++] = ... for the other pieces, standing on the cells
\* others in that order, the moved piece being placed when the array holds mi
Placed(ctr, color, type, f, mi, others) ==
    [k \in Slots |->
        IF k < mi THEN PieceOn(f, others[k + 1], color)
        ELSE IF k = mi THEN Piece(ctr[1], ctr[2], color, type)
        ELSE IF k <= Len(others) THEN PieceOn(f, others[k], color)
        ELSE ZeroPiece]

\* 1 Blue, 2 Red
ControlCode(color) == IF color = "B" THEN 1 ELSE 2

\* a cell under a piece is controlled by that piece's color
ControlOf(ctr, color, f) ==
    [r \in Rows |-> [c \in Cols |->
        IF <<r, c>> = ctr THEN ControlCode(color)
        ELSE IF <<r, c>> \in Occupied(f)
             THEN ControlCode(PieceOn(f, <<r, c>>, color).color)
             ELSE 0]]

InitState(ctr, color, type, f, mi) ==
    update_scores(
      [pieces |-> Placed(ctr, color, type, f, mi, SortedCells(Occupied(f))),
       piece_count |-> Cardinality(Occupied(f)) + 1,
       cell_control |-> ControlOf(ctr, color, f),
       game_over |-> 0, selected_piece |-> -1,
       score_blue |-> 0, score_red |-> 0, pieces_blue |-> 0, pieces_red |-> 0,
       current_turn |-> EnemyOf(color), turn_number |-> 1, my_color |-> "",
       g_socket |-> INVALID_SOCKET,
       victory |-> <<>>, wire |-> <<>>, trace |-> <<>>])

\* the contents of the cells around the moved piece
Layouts(cells) ==
    {g \in [cells -> Contents] :
        /\ Cardinality(Occupied(g)) <= MaxOthers
        /\ Cardinality({rc \in DOMAIN g : g[rc] = "EK"}) <= 1}

\* the array indices at which the moved piece may be placed
MovedIndices(f) == {i \in 0 .. MaxMovedIndex : i <= Cardinality(Occupied(f))}

\* the program starts in state s
Start(s) ==
    /\ pieces = s.pieces
    /\ piece_count = s.piece_count
    /\ cell_control = s.cell_control
    /\ game_over = s.game_over
    /\ selected_piece = s.selected_piece
    /\ score_blue = s.score_blue
    /\ score_red = s.score_red
    /\ pieces_blue = s.pieces_blue
    /\ pieces_red = s.pieces_red
    /\ current_turn = s.current_turn
    /\ turn_number = s.turn_number
    /\ my_color = s.my_color
    /\ g_socket = s.g_socket
    /\ victory = s.victory
    /\ wire = s.wire
    /\ trace = s.trace

\* no move is being encoded
CodecIdle ==
    [stage |-> "idle", from |-> <<0, 0>>, to |-> <<0, 0>>, token |-> <<>>, out |-> <<>>]

\* no connection: there is no other end, no thread and no byte in flight
NoPeer == [my_color |-> ""]
NoSession == [main |-> "none"]
\* no command line was parsed, no click converted
NoArgs == [stage |-> "none"]
NoClick == [stage |-> "none"]
\* no call of the search engine was made
NoSearch ==
    [stage |-> "idle", given |-> <<>>, jeu |-> <<>>,
     best_move |-> [piece_index |-> -1, from_row |-> -1, from_col |-> -1,
                    to_row |-> -1, to_col |-> -1]]

Init ==
    \E su \in Setups, color \in {"B", "R"}, type \in {"P", "K"} :
      \E f \in Layouts(su.cells) : \E mi \in MovedIndices(f) :
       \E s \in {InitState(su.ctr, color, type, f, mi)} :
        /\ Start(s)
        /\ codec = CodecIdle
        /\ peer = NoPeer
        /\ session = NoSession
        /\ ai = NoSearch
        /\ args = NoArgs
        /\ click = NoClick
        /\ pre = s
        /\ setup = s
        /\ moved = mi
        /\ stage = "start"
        /\ calls = <<>>

----------------------------------------------------------------------------
(* The driver's calls, in the order the tests make them *)

\* check_seltou_capture(0, 0, -3);  check_seltou_capture(0, 0, 2456000000);
FarOrigins == {<<0, -3>>, <<0, -1838967296>>}

\* the cells the moved piece may have come from: a neighbouring cell that is
\* now empty, or (a move that is none) the cell it stands on; a piece on the
\* board came from a cell of the board, a piece outside it from anywhere
OldCells(s, i) ==
    LET r == s.pieces[i].row
        c == s.pieces[i].col
        inside == <<r, c>> \in Rows \X Cols
        around == ((r - 1) .. (r + 1)) \X ((c - 1) .. (c + 1))
    IN  {rc \in around \cup (IF inside THEN {} ELSE FarOrigins) :
            /\ inside => rc \in Rows \X Cols
            /\ (rc = <<r, c>> \/ find_piece_at(s, rc[1], rc[2]) = -1)}

Seltou ==
    /\ stage = "start"
    /\ \E old \in OldCells(State, moved) :
         /\ \E s \in {check_seltou_capture(State, moved, old[1], old[2])} : Commit(s)
         /\ calls' = Append(calls, [op |-> "seltou", moved_index |-> moved,
                                     old_row |-> old[1], old_col |-> old[2]])
    /\ pre' = State
    /\ stage' = "seltou"
    /\ UNCHANGED <<moved, setup, codec, peer, session, ai, args, click>>

Linca ==
    /\ stage \in {"start", "seltou"}
    /\ \E s \in {check_linca_capture(State, moved)} : Commit(s)
    /\ calls' = Append(calls, [op |-> "linca", moved_index |-> moved])
    /\ pre' = State
    /\ stage' = "linca"
    /\ UNCHANGED <<moved, setup, codec, peer, session, ai, args, click>>

AutoDefeat ==
    /\ stage \in {"start", "seltou", "linca"}
    /\ \E s \in {check_auto_defeat(State)} : Commit(s)
    /\ calls' = Append(calls, [op |-> "auto"])
    /\ pre' = State
    /\ stage' = "auto"
    /\ UNCHANGED <<moved, setup, codec, peer, session, ai, args, click>>

Next == Seltou \/ Linca \/ AutoDefeat

Spec == Init /\ [][Next]_vars

\* the same driver when a piece is selected (selected_piece is an index of
\* pieces[], or -1 for none) around a piece in the middle of the board
SelectInit ==
    \E su \in {x \in Setups : x.ctr = MidCenter}, color \in {"B", "R"}, type \in {"P", "K"} :
      \E f \in Layouts(su.cells) : \E mi \in MovedIndices(f) :
       \E s0 \in {InitState(su.ctr, color, type, f, mi)} :
        \E sel \in -1 .. (s0.piece_count - 1) :
         \E s \in {[s0 EXCEPT !.selected_piece = sel]} :
          /\ Start(s)
          /\ codec = CodecIdle
          /\ peer = NoPeer
          /\ session = NoSession
          /\ ai = NoSearch
          /\ args = NoArgs
          /\ click = NoClick
          /\ pre = s
          /\ setup = s
          /\ moved = mi
          /\ stage = "start"
          /\ calls = <<>>

SelectSpec == SelectInit /\ [][Next]_vars

----------------------------------------------------------------------------
(* The protocol: a match over a connection.  Tokens of the peer reach       *)
(* gui_move_piece_callback, and strings are handed to TCP_Send_Message as   *)
(* in tests/TestNet.c.                                                      *)

\* the socket accept() or socket() returned: g_socket = s;
LiveSocket == 3

\* the position of the match: A1, C1, B2 and three pieces on the far row
NetPosition ==
    <<Piece(8, 0, "B", "P"), Piece(8, 2, "R", "P"), Piece(7, 1, "B", "K"),
      Piece(0, 4, "R", "K"), Piece(0, 0, "R", "P"), Piece(0, 8, "B", "P")>>

NetState(turn, mine, sock) ==
    update_scores(
      [pieces |-> [k \in Slots |-> IF k < Len(NetPosition) THEN NetPosition[k + 1]
                                                            ELSE ZeroPiece],
       piece_count |-> Len(NetPosition),
       cell_control |-> [r \in Rows |-> [c \in Cols |->
           IF \E k \in DOMAIN NetPosition :
                 NetPosition[k].row = r /\ NetPosition[k].col = c
           THEN ControlCode((CHOOSE q \in {NetPosition[k] : k \in DOMAIN NetPosition} :
                                q.row = r /\ q.col = c).color)
           ELSE 0]],
       game_over |-> 0, selected_piece |-> -1,
       score_blue |-> 0, score_red |-> 0, pieces_blue |-> 0, pieces_red |-> 0,
       current_turn |-> turn, turn_number |-> 1,
       my_color |-> mine, g_socket |-> sock,
       victory |-> <<>>, wire |-> <<>>, trace |-> <<>>])

\* the cells the peer's tokens name: A1, B1, C1, A2, B2
NetCells == {<<8, 0>>, <<8, 1>>, <<8, 2>>, <<7, 0>>, <<7, 1>>}

\* "a1b1", "Z9A1", "A1J1", "A0A1", "ABC", "A1A2B"
OddTokens ==
    {<<97, 49, 98, 49>>, <<90, 57, 65, 49>>, <<65, 49, 74, 49>>,
     <<65, 48, 65, 49>>, <<65, 66, 67>>, <<65, 49, 65, 50, 66>>}

NetTokens == {EncodeMove(f, g) : f \in NetCells, g \in NetCells} \cup OddTokens

\* NULL, "ABC", "C3", "A2A3", "D1D2D3"
SendMoves ==
    {NullMove, Str(<<65, 66, 67>>), Str(<<67, 51>>), Str(<<65, 50, 65, 51>>),
     Str(<<68, 49, 68, 50, 68, 51>>)}

\* what the connection takes at the successive calls of send: a bytes at
\* each of the first k-1 calls, then nothing (0), an error (-1) or the rest
SendRuns ==
    {[i \in 1 .. TokenLen |-> IF i < k THEN a ELSE b] :
        k \in 1 .. TokenLen, a \in {1, 2}, b \in {-1, 0, 1, TokenLen}}

\* run_server: my_color = 'R';  run_client: my_color = 'B';
NetInit ==
    \E turn \in {"B", "R"}, mine \in {"B", "R"} :
      \E s \in {NetState(turn, mine, LiveSocket)} :
        /\ Start(s)
        /\ codec = CodecIdle
        /\ peer = NoPeer
        /\ session = NoSession
        /\ ai = NoSearch
        /\ args = NoArgs
        /\ click = NoClick
        /\ pre = s
        /\ setup = s
        /\ moved = 0
        /\ stage = "net"
        /\ calls = <<>>

\* g_idle_add(gui_move_piece_callback, msg_copy): the main loop runs the
\* callback on a received token
Callback ==
    /\ stage = "net" /\ Len(calls) < MaxNetCalls
    /\ \E msg \in NetTokens :
         /\ \E s \in {gui_move_piece_callback(State, msg)} : Commit(s)
         /\ calls' = Append(calls, [op |-> "callback", msg |-> msg])
    /\ pre' = State
    /\ UNCHANGED <<moved, stage, setup, codec, peer, session, ai, args, click>>

\* TCP_Send_Message(g_socket, move), or on INVALID_SOCKET as the tests do
SendMessage ==
    /\ stage = "net" /\ Len(calls) < MaxNetCalls
    /\ \E move \in SendMoves, sock \in {g_socket, INVALID_SOCKET}, rets \in SendRuns :
         \E res \in {TCP_Send_Message(wire, sock, move, rets)} :
           /\ Commit([State EXCEPT !.wire = res.wire])
           /\ calls' = Append(calls, [op |-> "send", move |-> move, sock |-> sock,
                                       ret |-> res.ret])
    /\ pre' = State
    /\ UNCHANGED <<moved, stage, setup, codec, peer, session, ai, args, click>>

NetNext == Callback \/ SendMessage

NetSpec == NetInit /\ [][NetNext]_vars

----------------------------------------------------------------------------
(* The token codec: a move of the board is encoded, the token is decoded.  *)

CodecInit ==
    \E from \in Rows \X Cols, to \in Rows \X Cols :
      \E s \in {NetState("B", "B", LiveSocket)} :
        /\ Start(s)
        /\ codec = [stage |-> "move", from |-> from, to |-> to,
                    token |-> <<>>, out |-> <<>>]
        /\ peer = NoPeer
        /\ session = NoSession
        /\ ai = NoSearch
        /\ args = NoArgs
        /\ click = NoClick
        /\ pre = s
        /\ setup = s
        /\ moved = 0
        /\ stage = "codec"
        /\ calls = <<>>

\* the sender writes the token of the move
Encode ==
    /\ codec.stage = "move"
    /\ codec' = [codec EXCEPT !.stage = "token",
                               !.token = EncodeMove(codec.from, codec.to)]
    /\ UNCHANGED <<pieces, piece_count, cell_control, game_over, selected_piece,
                   score_blue, score_red, pieces_blue, pieces_red,
                   current_turn, turn_number, my_color, g_socket, victory, wire,
                   trace, peer, session, ai, args, click, moved, stage, calls, pre, setup>>

\* the receiver computes the cells as gui_move_piece_callback does
Decode ==
    /\ codec.stage = "token"
    /\ codec' = [codec EXCEPT !.stage = "cells",
                               !.out = <<DecodeFrom(codec.token), DecodeTo(codec.token)>>]
    /\ UNCHANGED <<pieces, piece_count, cell_control, game_over, selected_piece,
                   score_blue, score_red, pieces_blue, pieces_red,
                   current_turn, turn_number, my_color, g_socket, victory, wire,
                   trace, peer, session, ai, args, click, moved, stage, calls, pre, setup>>

CodecNext == Encode \/ Decode

CodecSpec == CodecInit /\ [][CodecNext]_vars

----------------------------------------------------------------------------
(* int recv_move(SOCKET s, char *buffer) *)

RECURSIVE Sum(_)
Sum(q) == IF q = <<>> THEN 0 ELSE Head(q) + Sum(Tail(q))

\* recv(s, buffer + total, n, 0) stores the r bytes it read at buffer + total
Store(buffer, total, chunk) ==
    [i \in 1 .. TokenLen |->
        IF total < i /\ i <= total + Len(chunk) THEN chunk[i - total] ELSE buffer[i]]

\* mutant: the first read that brings bytes ends the loop
RecvDone_AnyBytes(total) == total > 0

\* while (total < 4)
RecvDone(total) == total >= TokenLen

\* while (total < 4) { r = recv(s, buffer + total, 4 - total, 0);
\*                     if (r <= 0) return r;  total += r; }
\* buffer[4] = '\0';  return total;
\* bytes: the unread bytes of the connection; rets: what the successive
\* calls of recv return
RECURSIVE RecvLoop(_, _, _, _)
RecvLoop(bytes, total, buffer, rets) ==
    IF RecvDone(total) THEN [ret |-> total, buffer |-> buffer, bytes |-> bytes]
    ELSE LET r == Head(rets)
         IN  IF r <= 0 THEN [ret |-> r, buffer |-> buffer, bytes |-> bytes]
             ELSE RecvLoop(SubSeq(bytes, r + 1, Len(bytes)), total + r,
                           Store(buffer, total, SubSeq(bytes, 1, r)), Tail(rets))

\* the value returned, the buffer and the unread bytes afterwards
recv_move(bytes, buffer, rets) == RecvLoop(bytes, 0, buffer, rets)

\* the numbers of bytes successive calls of recv may read for one token
Chunks ==
    {q \in UNION {[1 .. n -> 1 .. TokenLen] : n \in 0 .. TokenLen} : Sum(q) <= TokenLen}

\* a socket this program has closed, or shut down
Closed(s, sock) ==
    \E i \in 1 .. Len(s.trace) : s.trace[i].ev = "close" /\ s.trace[i].a = sock
Shut(s, sock) ==
    \E i \in 1 .. Len(s.trace) : s.trace[i].ev = "shutdown" /\ s.trace[i].a = sock

\* what recv returns when it reads no byte, left bytes being unread: -1 on a
\* closed socket and on a connection that was reset, 0 on a socket shut down
\* and at the end of the bytes of a connection the peer closed; on an open
\* connection it waits
RecvEnds(s, n, left) ==
    (IF Closed(s, n.s) \/ n.conn = "reset" THEN {-1} ELSE {})
      \cup (IF Closed(s, n.s) \/ Shut(s, n.s) \/ (n.conn = "eof" /\ left = 0)
            THEN {0} ELSE {})

\* what the calls of recv of one recv_move may return
RecvRuns(s, n) ==
    {q \in Chunks : Sum(q) = TokenLen /\ Len(n.bytes) >= TokenLen /\ ~Closed(s, n.s)}
      \cup UNION {{Append(q, e) : e \in RecvEnds(s, n, Len(n.bytes) - Sum(q))} :
                     q \in {c \in Chunks : /\ Sum(c) < TokenLen
                                            /\ Sum(c) <= Len(n.bytes)
                                            /\ (Closed(s, n.s) => c = <<>>)}}

----------------------------------------------------------------------------
(* void* server_loop(void *arg),  void* client_loop(void *arg) *)

\* char *msg_copy = g_strdup(buffer): the characters before the first 0
RECURSIVE g_strdup(_)
g_strdup(buffer) ==
    IF buffer = <<>> \/ Head(buffer) = 0 THEN <<>>
    ELSE <<Head(buffer)>> \o g_strdup(Tail(buffer))

\* mutant: the callbacks are handed the buffer itself, which the next read
\* overwrites
g_idle_add_Shared(queue, data) == [i \in 1 .. (Len(queue) + 1) |-> data]

\* g_idle_add(gui_move_piece_callback, msg_copy): the main loop runs its idle
\* callbacks in the order in which they were added, each once
g_idle_add(queue, data) == Append(queue, data)

\* the names of what a thread reads and writes
Touch(n, names) == [n EXCEPT !.touched = @ \cup names]

\* ctx->running = 0;  return NULL;
LoopExit(n) == [Touch(n, {"ctx.running"}) EXCEPT !.running = 0, !.thread = "finished"]

\* mutant: a failed read is tried again
ReadFailed_Never(bytes_received) == FALSE

\* if (bytes_received <= 0)
ReadFailed(bytes_received) == bytes_received <= 0

\* mutant: the thread applies the token itself
Deliver_Direct(n, buffer) ==
    [Touch(n, {"pieces", "current_turn"}) EXCEPT !.received = Append(@, buffer),
                                                !.processed = Append(@, g_strdup(buffer))]

\* the token read is copied and queued for the main loop
Deliver(n, buffer) ==
    [Touch(n, {"buffer", "g_idle_add"}) EXCEPT
        !.received = Append(@, buffer),
        !.queue = g_idle_add(@, g_strdup(buffer))]

\* one turn of while (ctx->running) { ... }: seen is the value of
\* ctx->running the thread gets, rets what the calls of recv return
server_loop(n, seen, rets) ==
    LET n0 == [Touch(n, {"ctx.running"}) EXCEPT !.actor = "net"]
    IN  IF seen = 0 THEN LoopExit(n0)
        ELSE LET res == recv_move(n0.bytes, n0.buffer, rets)
                 n1 == [Touch(n0, {"ctx.s", "buffer"}) EXCEPT
                           !.bytes = res.bytes, !.buffer = res.buffer,
                           !.reads = Append(@, res.ret), !.split = Len(rets)]
             IN  IF ReadFailed(res.ret) THEN LoopExit(n1)
                 ELSE Deliver(n1, res.buffer)

\* client_loop: the statements of server_loop, with another message printed
client_loop(n, seen, rets) == server_loop(n, seen, rets)

----------------------------------------------------------------------------
(* int run_server(short port, game_mode_t mode),                           *)
(* int run_client(const char *ip, short port, game_mode_t mode)            *)

\* void cleanup_socket(SOCKET s)
cleanup_socket(s, sock) == IF sock # INVALID_SOCKET THEN Traced(s, "close", sock, 0) ELSE s

\* mutant: the listening side plays Blue as well
ServerGlobals_PlaysBlue(s, master, acc) ==
    [s EXCEPT !.g_socket = acc,
              !.my_color = IF master = INVALID_SOCKET \/ acc = INVALID_SOCKET
                           THEN s.my_color ELSE "B"]

\* master = TCP_Create_Server(port); if (master == INVALID_SOCKET) return 1;
\* s = accept(master, ...); cleanup_socket(master);
\* if (s == INVALID_SOCKET) return 1;  g_socket = s;  my_color = 'R';
ServerGlobals(s, master, acc) ==
    IF master = INVALID_SOCKET THEN s
    ELSE LET s1 == cleanup_socket(Traced(s, "accept", master, acc), master)
         IN  IF acc = INVALID_SOCKET THEN s1
             ELSE [s1 EXCEPT !.g_socket = acc, !.my_color = "R"]

\* s = TCP_Create_Client(ip, port); if (s == INVALID_SOCKET) return 1;
\* g_socket = s;  my_color = 'B';
ClientGlobals(s, sock) ==
    IF sock = INVALID_SOCKET THEN s
    ELSE [Traced(s, "connect", sock, 0) EXCEPT !.g_socket = sock, !.my_color = "B"]

\* ctx.s = s; ctx.running = 1; pthread_create(&net_thread, NULL, ..., &ctx);
\* created: whether pthread_create started the thread
Context(n, sock, created) ==
    [n EXCEPT !.s = sock, !.running = 1,
              !.thread = IF created THEN "loop" ELSE "none"]

\* run_server after start_gui: ctx.running = 0; shutdown(s, SHUT_RDWR);
ServerStop(s, sock) == Traced(s, "shutdown", sock, 0)

\* run_client after start_gui: ctx.running = 0; shutdown(s, SHUT_RDWR);
\* close(s); g_socket = INVALID_SOCKET;
ClientStop(s, sock) ==
    [Traced(Traced(s, "shutdown", sock, 0), "close", sock, 0)
        EXCEPT !.g_socket = INVALID_SOCKET]

\* mutant: the function returns without waiting for the thread
Joinable_Always(n) == TRUE

\* pthread_join(net_thread, NULL) returns once the thread has returned
Joinable(n) == n.thread = "finished"

----------------------------------------------------------------------------
(* A session: run_server or run_client on this end of a connection, the    *)
(* thread it starts, the main loop that runs the queued callbacks, and the  *)
(* other end, which runs the same program in the other role and puts bytes  *)
(* on the connection.                                                       *)

\* the program state of an end that has set its session up
SetUp(s, role) ==
    IF role = "server" THEN ServerGlobals(s, LiveSocket, LiveSocket + 1)
    ELSE ClientGlobals(s, LiveSocket)

\* no thread yet, an open connection with no byte in flight
NewSession(role) ==
    [role |-> role, main |-> "start", thread |-> "none", running |-> 0,
     s |-> INVALID_SOCKET, buffer |-> [i \in 1 .. TokenLen |-> 0],
     bytes |-> <<>>, conn |-> "open", queue |-> <<>>,
     received |-> <<>>, processed |-> <<>>, reads |-> <<>>, split |-> 0,
     sent |-> <<>>, moves |-> <<>>, honest |-> TRUE,
     actor |-> "main", touched |-> {}]

SessionInit ==
    \E role \in {"server", "client"}, turn \in {"B", "R"} :
      \E s \in {NetState(turn, "", INVALID_SOCKET)} :
        /\ Start(s)
        /\ codec = CodecIdle
        /\ peer = SetUp(s, IF role = "server" THEN "client" ELSE "server")
        /\ session = NewSession(role)
        /\ ai = NoSearch
        /\ args = NoArgs
        /\ click = NoClick
        /\ pre = s
        /\ setup = s
        /\ moved = 0
        /\ stage = "session"
        /\ calls = <<>>

\* a step of the main thread that takes the program to state s
MainStep(s, op) ==
    /\ Commit(s)
    /\ calls' = Append(calls, op)
    /\ pre' = State
    /\ UNCHANGED <<moved, stage, codec, peer, ai, args, click>>

\* a step of another thread, or of the other end
OtherStep ==
    UNCHANGED <<pieces, piece_count, cell_control, game_over, selected_piece,
                score_blue, score_red, pieces_blue, pieces_red,
                current_turn, turn_number, my_color, g_socket, victory, wire,
                trace, codec, ai, args, click, moved, stage, calls, pre, setup>>

\* run_server up to start_gui
RunServer ==
    /\ stage = "session" /\ session.main = "start" /\ session.role = "server"
    /\ \E master \in {LiveSocket, INVALID_SOCKET},
          acc \in {LiveSocket + 1, INVALID_SOCKET}, created \in BOOLEAN :
         \E s \in {ServerGlobals(State, master, acc)} :
           /\ MainStep(s, [op |-> "run_server"])
           /\ setup' = s
           /\ session' =
                IF master = INVALID_SOCKET \/ acc = INVALID_SOCKET
                THEN [session EXCEPT !.main = "failed", !.actor = "main"]
                ELSE [Context(session, acc, created) EXCEPT !.main = "gui",
                                                            !.actor = "main"]

\* run_client up to start_gui; when pthread_create fails: ctx.running = 0;
\* cleanup_socket(s); return 1;
RunClient ==
    /\ stage = "session" /\ session.main = "start" /\ session.role = "client"
    /\ \E sock \in {LiveSocket, INVALID_SOCKET}, created \in BOOLEAN :
         \E s \in {IF created THEN ClientGlobals(State, sock)
                   ELSE cleanup_socket(ClientGlobals(State, sock), sock)} :
           /\ MainStep(s, [op |-> "run_client"])
           /\ setup' = s
           /\ session' =
                IF sock = INVALID_SOCKET
                THEN [session EXCEPT !.main = "failed", !.actor = "main"]
                ELSE IF ~created
                THEN [Context(session, sock, FALSE) EXCEPT !.running = 0,
                                                           !.main = "failed",
                                                           !.actor = "main"]
                ELSE [Context(session, sock, TRUE) EXCEPT !.main = "gui",
                                                          !.actor = "main"]

\* the thread makes one turn of its loop.  ctx->running is read while the
\* main thread may write it: the thread may still get the 1 written first
Receive ==
    /\ stage = "session" /\ session.thread = "loop"
    /\ \E seen \in {session.running, 1} :
         \E rets \in IF seen = 0 THEN {<<>>} ELSE RecvRuns(State, session) :
           session' = IF session.role = "server"
                      THEN server_loop(session, seen, rets)
                      ELSE client_loop(session, seen, rets)
    /\ OtherStep
    /\ UNCHANGED peer

\* the main loop runs the oldest idle callback, which is removed
\* (G_SOURCE_REMOVE)
Dispatch ==
    /\ stage = "session" /\ session.main = "gui" /\ session.queue # <<>>
    /\ \E s \in {gui_move_piece_callback(State, Head(session.queue))} :
         MainStep(s, [op |-> "callback", msg |-> Head(session.queue)])
    /\ session' = [session EXCEPT !.queue = Tail(@),
                                  !.processed = Append(@, Head(session.queue)),
                                  !.actor = "main"]
    /\ UNCHANGED setup

\* start_gui returns: the connection is shut down, the thread awaited
Stop ==
    /\ stage = "session" /\ session.main = "gui"
    /\ \E s \in {IF session.role = "server" THEN ServerStop(State, session.s)
                 ELSE ClientStop(State, session.s)} :
         MainStep(s, [op |-> "stop"])
    /\ session' = [session EXCEPT !.running = 0, !.main = "join", !.actor = "main"]
    /\ UNCHANGED setup

\* pthread_join returns; run_server: cleanup_socket(s);  return 0;
Join ==
    /\ stage = "session" /\ session.main = "join"
    /\ session.thread # "none" /\ Joinable(session)
    /\ \E s \in {IF session.role = "server" THEN cleanup_socket(State, session.s)
                 ELSE State} :
         MainStep(s, [op |-> "join"])
    /\ session' = [session EXCEPT
                      !.thread = IF @ = "finished" THEN "joined" ELSE @,
                      !.main = "returned", !.actor = "main"]
    /\ UNCHANGED setup

\* run_server does not look at what pthread_create returned: when no thread
\* was started pthread_join is given a net_thread that was never written, and
\* returns at once or never
JoinUnstarted ==
    /\ stage = "session" /\ session.main = "join" /\ session.thread = "none"
    /\ \E returns \in BOOLEAN :
         /\ \E s \in {IF returns THEN cleanup_socket(State, session.s) ELSE State} :
              MainStep(s, [op |-> "join"])
         /\ session' = [session EXCEPT !.main = IF returns THEN "returned" ELSE "stuck",
                                       !.actor = "main"]
    /\ UNCHANGED setup

\* "A1J1", "A1", "B" 0 "B1"
OddPayloads == {<<65, 49, 74, 49>>, <<65, 49>>, <<66, 0, 66, 49>>}

\* the bytes reach this end while its socket is open
Connected ==
    /\ session.main = "gui"
    /\ session.conn = "open"
    /\ ~Closed(State, session.s)

\* the other end, a game being on there, makes a move its legality checker
\* accepts and sends the token of the move
PeerMove ==
    /\ stage = "session" /\ Connected /\ Len(session.moves) < MaxNetCalls
    /\ peer.game_over = 0
    /\ \E idx \in 0 .. (peer.piece_count - 1), to \in NetCells :
         /\ can_move(peer, idx, to[1], to[2])
         /\ peer' = move_piece(peer, idx, to[1], to[2])
         /\ \E token \in {EncodeMove(<<peer.pieces[idx].row, peer.pieces[idx].col>>, to)} :
              session' = [session EXCEPT !.bytes = @ \o token, !.sent = @ \o token,
                                         !.moves = Append(@, peer'),
                                         !.actor = "peer"]
    /\ OtherStep

\* the other end puts other bytes on the connection
PeerSend ==
    /\ stage = "session" /\ Connected /\ Len(session.moves) < MaxNetCalls
    /\ \E bytes \in OddPayloads :
         session' = [session EXCEPT !.bytes = @ \o bytes, !.sent = @ \o bytes,
                                    !.moves = Append(@, peer),
                                    !.honest = FALSE, !.actor = "peer"]
    /\ OtherStep
    /\ UNCHANGED peer

\* the other end closes the connection, or the connection is reset
PeerClose ==
    /\ stage = "session" /\ session.main \in {"gui", "join"} /\ session.conn = "open"
    /\ \E c \in {"eof", "reset"} :
         session' = [session EXCEPT !.conn = c, !.actor = "peer"]
    /\ OtherStep
    /\ UNCHANGED peer

SessionNext ==
    \/ RunServer \/ RunClient \/ Receive \/ Dispatch \/ Stop \/ Join
    \/ JoinUnstarted \/ PeerMove \/ PeerSend \/ PeerClose

SessionSpec == SessionInit /\ [][SessionNext]_vars

\* a thread that can run does run; when the user leaves start_gui is the
\* user's choice
SessionFair ==
    SessionSpec /\ WF_vars(Receive) /\ WF_vars(Join)

----------------------------------------------------------------------------
(* ia.h: the search engine.  Its functions are declared in ia.h and called *)
(* in tests/TestAi.c; their bodies are not among the sources, and are       *)
(* written here from the specification of the engine: a minimax search on   *)
(* a copy of the state it is given.                                         *)

\* the deepest search asked for
MaxDepth == 1

\* mutant: the two cells of a move are stored the other way round
Move_Reversed(i, fr, fc, tr, tc) ==
    [piece_index |-> i, from_row |-> tr, from_col |-> tc, to_row |-> fr, to_col |-> fc]

\* typedef struct { int piece_index; int from_row, from_col; int to_row, to_col; } Move;
Move(i, fr, fc, tr, tc) ==
    [piece_index |-> i, from_row |-> fr, from_col |-> fc, to_row |-> tr, to_col |-> tc]

\* the move that says there is none: best.piece_index >= 0 fails
NoMove == Move(-1, -1, -1, -1, -1)

\* GameState createGameStateFromCurrent(void): the globals, copied by value
createGameStateFromCurrent(s) ==
    [pieces |-> s.pieces, piece_count |-> s.piece_count,
     cell_control |-> s.cell_control, current_player |-> s.current_turn,
     turn_number |-> s.turn_number]

\* a GameState as a state to which the rules are applied
Embed(gs) ==
    [pieces |-> gs.pieces, piece_count |-> gs.piece_count,
     cell_control |-> gs.cell_control, game_over |-> 0, selected_piece |-> -1,
     score_blue |-> 0, score_red |-> 0, pieces_blue |-> 0, pieces_red |-> 0,
     current_turn |-> gs.current_player, turn_number |-> gs.turn_number,
     my_color |-> "", g_socket |-> INVALID_SOCKET,
     victory |-> <<>>, wire |-> <<>>, trace |-> <<>>]

\* the moves of the color to move that the rules allow
LegalMoves(gs) ==
    {Move(x[1], gs.pieces[x[1]].row, gs.pieces[x[1]].col, x[2][1], x[2][2]) :
        x \in {y \in (0 .. (gs.piece_count - 1)) \X (Rows \X Cols) :
                  can_move(Embed(gs), y[1], y[2][1], y[2][2])}}

\* the state a move leads to: the piece moved, the captures made, the turn passed
Simulate(gs, m) ==
    createGameStateFromCurrent(move_piece(Embed(gs), m.piece_index, m.to_row, m.to_col))

\* int isGameOver(GameState* jeu): a King is missing
isGameOver(gs) ==
    \E c \in {"B", "R"} :
        \A i \in 0 .. (gs.piece_count - 1) :
            ~(gs.pieces[i].color = c /\ gs.pieces[i].type = "K")

\* int evaluation(GameState* jeu, char evaluating_player): 200 points a
\* piece, and the King above all
evaluation(gs, player) ==
    LET Material(c) ==
            Cardinality({i \in 0 .. (gs.piece_count - 1) : gs.pieces[i].color = c})
        HasKing(c) ==
            \E i \in 0 .. (gs.piece_count - 1) :
                gs.pieces[i].color = c /\ gs.pieces[i].type = "K"
    IN  200 * (Material(player) - Material(EnemyOf(player)))
          + (IF HasKing(EnemyOf(player)) THEN 0 ELSE 100000)
          - (IF HasKing(player) THEN 0 ELSE 100000)

\* int minimaxIA(GameState* jeu, int profondeur, char maximizing_player, ...):
\* the value alpha-beta pruning computes is the minimax value
RECURSIVE minimaxIA(_, _, _)
minimaxIA(gs, profondeur, maximizing_player) ==
    IF profondeur <= 0 \/ isGameOver(gs) \/ LegalMoves(gs) = {}
    THEN evaluation(gs, maximizing_player)
    ELSE LET vals == {minimaxIA(Simulate(gs, m), profondeur - 1, maximizing_player) :
                         m \in LegalMoves(gs)}
         IN  IF gs.current_player = maximizing_player
             THEN CHOOSE v \in vals : \A w \in vals : w <= v
             ELSE CHOOSE v \in vals : \A w \in vals : v <= w

\* the move the search prefers in a state, or NoMove
BestMove(gs, profondeur) ==
    LET moves == LegalMoves(gs)
        Value(m) == minimaxIA(Simulate(gs, m), profondeur - 1, gs.current_player)
    IN  IF moves = {} THEN NoMove
        ELSE CHOOSE m \in moves : \A o \in moves : Value(o) <= Value(m)

\* mutant: the search plays its moves on the caller's state and leaves the
\* chosen one played
Searched_InPlace(jeu, best) == IF best = NoMove THEN jeu ELSE Simulate(jeu, best)

\* the caller's GameState when the search returns: the search worked on a
\* copy of it
Searched(jeu, best) == jeu

\* void trouverMeilleurCoupIA(GameState* jeu, Move* best_move, int profondeur):
\* the globals, the caller's GameState and *best_move afterwards
trouverMeilleurCoupIA(s, jeu, profondeur) ==
    LET copy == jeu
        best == BestMove(copy, profondeur)
    IN  [s |-> s, jeu |-> Searched(jeu, best), best_move |-> best]

\* void trouverMeilleurCoupIA_Adaptatif(GameState* jeu, Move* best_move):
\* budget is the depth the difficulty and the time at hand allow
trouverMeilleurCoupIA_Adaptatif(s, jeu, budget) == trouverMeilleurCoupIA(s, jeu, budget)

\* void trouverMeilleurCoupIA_Rapide(GameState* jeu, Move* best_move): a
\* search of one ply
trouverMeilleurCoupIA_Rapide(s, jeu) == trouverMeilleurCoupIA(s, jeu, 1)

\* the program state with the pieces of a position, each controlling its cell
BoardState(position, turn) ==
    update_scores(
      [pieces |-> [k \in Slots |-> IF k < Len(position) THEN position[k + 1]
                                                        ELSE ZeroPiece],
       piece_count |-> Len(position),
       cell_control |-> [r \in Rows |-> [c \in Cols |->
           IF \E k \in DOMAIN position : position[k].row = r /\ position[k].col = c
           THEN ControlCode((CHOOSE q \in {position[k] : k \in DOMAIN position} :
                                q.row = r /\ q.col = c).color)
           ELSE 0]],
       game_over |-> 0, selected_piece |-> -1,
       score_blue |-> 0, score_red |-> 0, pieces_blue |-> 0, pieces_red |-> 0,
       current_turn |-> turn, turn_number |-> 1,
       my_color |-> "", g_socket |-> INVALID_SOCKET,
       victory |-> <<>>, wire |-> <<>>, trace |-> <<>>])

\* positions in which Red cannot move: its King, alone or with a Soldier
\* beside it, shut in a corner by Blue
AiBoxed ==
    {<<Piece(0, 0, "R", "K"), Piece(0, 1, "B", "P"), Piece(1, 0, "B", "P"),
       Piece(8, 8, "B", "K")>>,
     <<Piece(0, 0, "R", "K"), Piece(0, 1, "R", "P"), Piece(1, 0, "B", "P"),
       Piece(0, 2, "B", "P"), Piece(1, 1, "B", "P"), Piece(8, 8, "B", "K")>>}

\* the positions of tests/TestAi.c: the Kings in two corners, with or without
\* the Soldiers beside them; and Soldiers that can be captured; and the
\* positions without a move
AiPositions ==
    {<<Piece(0, 0, "R", "K")>> \o a \o <<Piece(8, 8, "B", "K")>> \o b \o c \o d :
        a \in {<<>>, <<Piece(1, 0, "R", "P")>>},
        b \in {<<>>, <<Piece(7, 8, "B", "P")>>},
        c \in {<<>>, <<Piece(7, 6, "R", "P")>>},
        d \in {<<>>, <<Piece(3, 0, "B", "P")>>}}
      \cup AiBoxed

AiInit ==
    \E position \in AiPositions, turn \in {"B", "R"} :
      \E s \in {BoardState(position, turn)} :
        /\ Start(s)
        /\ codec = CodecIdle
        /\ peer = NoPeer
        /\ session = NoSession
        /\ ai = NoSearch
        /\ args = NoArgs
        /\ click = NoClick
        /\ pre = s
        /\ setup = s
        /\ moved = 0
        /\ stage = "ai"
        /\ calls = <<>>

\* the caller takes a GameState of the globals
Snapshot ==
    /\ stage = "ai" /\ ai.stage = "idle"
    /\ ai' = [ai EXCEPT !.stage = "snapshot", !.jeu = createGameStateFromCurrent(State)]
    /\ UNCHANGED <<pieces, piece_count, cell_control, game_over, selected_piece,
                   score_blue, score_red, pieces_blue, pieces_red,
                   current_turn, turn_number, my_color, g_socket, victory, wire,
                   trace, codec, peer, session, args, click, moved, stage, calls, pre, setup>>

\* a call of an entry point took the globals to s, the GameState to jeu
Returned(res, op) ==
    /\ Commit(res.s)
    /\ ai' = [ai EXCEPT !.stage = "done", !.given = ai.jeu, !.jeu = res.jeu,
                        !.best_move = res.best_move]
    /\ calls' = Append(calls, op)
    /\ pre' = State
    /\ UNCHANGED <<codec, peer, session, args, click, moved, stage, setup>>

Search ==
    /\ stage = "ai" /\ ai.stage = "snapshot"
    /\ \E profondeur \in 0 .. MaxDepth :
         \E res \in {trouverMeilleurCoupIA(State, ai.jeu, profondeur)} :
           Returned(res, [op |-> "trouverMeilleurCoupIA", profondeur |-> profondeur])

SearchAdaptive ==
    /\ stage = "ai" /\ ai.stage = "snapshot"
    /\ \E budget \in 1 .. MaxDepth :
         \E res \in {trouverMeilleurCoupIA_Adaptatif(State, ai.jeu, budget)} :
           Returned(res, [op |-> "trouverMeilleurCoupIA_Adaptatif", profondeur |-> budget])

SearchFast ==
    /\ stage = "ai" /\ ai.stage = "snapshot"
    /\ \E res \in {trouverMeilleurCoupIA_Rapide(State, ai.jeu)} :
         Returned(res, [op |-> "trouverMeilleurCoupIA_Rapide", profondeur |-> 1])

AiNext == Snapshot \/ Search \/ SearchAdaptive \/ SearchFast

AiSpec == AiInit /\ [][AiNext]_vars

----------------------------------------------------------------------------
(* args_t parse_args(int argc, char **argv)   (src/src/args.c)              *)
(* A C string is the sequence of its characters before the terminator.     *)

\* if (*port <= 0 || *port > 65535), if (val <= 0 || val > 65535)
PortMax == 65535
\* the largest long of a build whose long has 32 bits; strtol returns it for
\* every larger number
LONG_MAX == 2147483647
\* the longest command line given: the arguments after the program's name
MaxArgs == 3

\* static args_t init_args(void)
init_args ==
    [mode |-> "MODE_NONE", is_ia |-> 0, is_ia_both |-> 0, host |-> NullMove,
     port |-> 0, help |-> 0, error |-> 0]

\* the decimal digits
Digits == {"0", "1", "2", "3", "4", "5", "6", "7", "8", "9"}

\* the number a run of digits denotes, LONG_MAX standing for all beyond it
RECURSIVE Decimal(_, _)
Decimal(digits, acc) ==
    LET d == CHOOSE v \in 0 .. 9 :
                 <<"0", "1", "2", "3", "4", "5", "6", "7", "8", "9">>[v + 1] = Head(digits)
    IN  IF digits = <<>> THEN acc
        ELSE IF acc > (LONG_MAX - d) \div 10 THEN LONG_MAX
        ELSE Decimal(Tail(digits), 10 * acc + d)

\* long strtol(const char *nptr, char **endptr, 10): white space, a sign, the
\* digits; end is the index (from 1) of the first character not converted,
\* the start of the string when there is no digit; range tells ERANGE
strtol(nptr) ==
    LET Span(str, set) ==
            CHOOSE n \in 0 .. Len(str) :
                /\ \A k \in 1 .. n : str[k] \in set
                /\ n = Len(str) \/ str[n + 1] \notin set
        sp == Span(nptr, {" "})
        signed == sp < Len(nptr) /\ nptr[sp + 1] \in {"+", "-"}
        first == sp + (IF signed THEN 1 ELSE 0) + 1
        n == Span(SubSeq(nptr, first, Len(nptr)), Digits)
        digits == SubSeq(nptr, first, first + n - 1)
        val == Decimal(digits, 0)
    IN  [val |-> IF signed /\ nptr[sp + 1] = "-" THEN -val ELSE val,
         end |-> IF n = 0 THEN 1 ELSE first + n,
         range |-> n > 0 /\ val = LONG_MAX]

\* int atoi(const char *nptr): the number strtol reads; when an int cannot
\* hold it the behaviour is undefined, and wrapped is what the build makes
\* of it
atoi(nptr, wrapped) == IF strtol(nptr).range THEN wrapped ELSE strtol(nptr).val

\* what atoi has been seen to return for a number too large: the long cut to
\* 32 bits (negative, small, large)
AtoiWraps == {-1, 80, 1215752191}

\* static int parse_address(const char *addr_str, char **host, int *port):
\* the value returned, *host and *port afterwards; alloc tells whether
\* malloc gives memory; colon_pos is the index (from 1) of the first ':',
\* 0 for NULL
parse_address(addr_str, host, port, alloc, wrapped) ==
    LET colon_pos ==
            IF \E k \in 1 .. Len(addr_str) : addr_str[k] = ":"
            THEN CHOOSE k \in 1 .. Len(addr_str) :
                     addr_str[k] = ":" /\ \A j \in 1 .. (k - 1) : addr_str[j] # ":"
            ELSE 0
        p == atoi(SubSeq(addr_str, colon_pos + 1, Len(addr_str)), wrapped)
        host_len == colon_pos - 1
    IN  IF colon_pos = 0 THEN [ret |-> -1, host |-> host, port |-> port]
        ELSE IF p <= 0 \/ p > PortMax THEN [ret |-> -1, host |-> host, port |-> p]
        ELSE IF ~alloc THEN [ret |-> -1, host |-> NullMove, port |-> p]
        ELSE [ret |-> 0, host |-> Str(SubSeq(addr_str, 1, host_len)), port |-> p]

\* static int parse_port_token(const char* tok, int* out_port): the value
\* returned and *out_port afterwards
parse_port_token(tok, out_port) ==
    LET r == strtol(tok)
    IN  IF tok = <<>> \/ r.end <= Len(tok) THEN [ret |-> -1, port |-> out_port]
        ELSE IF r.val <= 0 \/ r.val > PortMax THEN [ret |-> -1, port |-> out_port]
        ELSE [ret |-> 0, port |-> r.val]

\* "-h" as the sequence of its characters, and the other literals of parse_args
Lit(str) ==
    CASE str = "-h" -> <<"-", "h">>
      [] str = "--help" -> <<"-", "-", "h", "e", "l", "p">>
      [] str = "-l" -> <<"-", "l">>
      [] str = "--local" -> <<"-", "-", "l", "o", "c", "a", "l">>
      [] str = "-s" -> <<"-", "s">>
      [] str = "--server" -> <<"-", "-", "s", "e", "r", "v", "e", "r">>
      [] str = "-c" -> <<"-", "c">>
      [] str = "--client" -> <<"-", "-", "c", "l", "i", "e", "n", "t">>
      [] str = "-ia" -> <<"-", "i", "a">>
      [] str = "--ia" -> <<"-", "-", "i", "a">>

\* mutant: a command line without a mode is complete
ModeMissing_Never(a) == FALSE

\* if (args.mode == MODE_NONE)
ModeMissing(a) == a.mode = "MODE_NONE"

\* the end of parse_args: the IA flags and the last checks
ArgsChecked(a, ia_count) ==
    LET b == [a EXCEPT !.is_ia = IF ia_count >= 1 THEN 1 ELSE 0,
                       !.is_ia_both = IF ia_count >= 2 THEN 1 ELSE 0]
    IN  IF \/ ModeMissing(b)
           \/ (b.mode = "MODE_SERVER" /\ b.port = 0)
           \/ (b.mode = "MODE_CLIENT" /\ (b.host.null \/ b.port = 0))
        THEN [b EXCEPT !.error = 1] ELSE b

\* an operand: else if (tok[0] != '-') { ... }; done tells that parse_args
\* returns
Operand(a, tok, alloc, wrapped) ==
    IF a.mode = "MODE_SERVER" /\ a.port = 0
    THEN LET r == parse_port_token(tok, a.port)
         IN  IF r.ret # 0 THEN [done |-> TRUE, args |-> [a EXCEPT !.error = 1]]
             ELSE [done |-> FALSE, args |-> [a EXCEPT !.port = r.port]]
    ELSE IF a.mode = "MODE_CLIENT" /\ a.host.null
    THEN LET r == parse_address(tok, a.host, a.port, alloc, wrapped)
             b == [a EXCEPT !.host = r.host, !.port = r.port]
         IN  IF r.ret # 0 THEN [done |-> TRUE, args |-> [b EXCEPT !.error = 1]]
             ELSE [done |-> FALSE, args |-> b]
    ELSE [done |-> TRUE, args |-> [a EXCEPT !.error = 1]]

\* for (int i = 1; i < argc; i++) { ... } and what follows it; argv[i] of the
\* code is argv[i + 1] here
RECURSIVE ArgLoop(_, _, _, _, _, _)
ArgLoop(a, ia_count, i, argv, alloc, wrapped) ==
    IF ~(i < Len(argv)) THEN ArgsChecked(a, ia_count)
    ELSE LET tok == argv[i + 1] IN
         IF tok \in {Lit("-h"), Lit("--help")} THEN [a EXCEPT !.help = 1]
         ELSE IF tok \in {Lit("-l"), Lit("--local")}
         THEN ArgLoop([a EXCEPT !.mode = "MODE_LOCAL"], ia_count, i + 1, argv, alloc, wrapped)
         ELSE IF tok \in {Lit("-s"), Lit("--server")}
         THEN ArgLoop([a EXCEPT !.mode = "MODE_SERVER"], ia_count, i + 1, argv, alloc, wrapped)
         ELSE IF tok \in {Lit("-c"), Lit("--client")}
         THEN ArgLoop([a EXCEPT !.mode = "MODE_CLIENT"], ia_count, i + 1, argv, alloc, wrapped)
         ELSE IF tok \in {Lit("-ia"), Lit("--ia")}
         THEN ArgLoop(a, ia_count + 1, i + 1, argv, alloc, wrapped)
         ELSE IF tok = <<>> \/ tok[1] # "-"
         THEN LET r == Operand(a, tok, alloc, wrapped)
              IN  IF r.done THEN r.args
                  ELSE ArgLoop(r.args, ia_count, i + 1, argv, alloc, wrapped)
         ELSE [a EXCEPT !.error = 1]

\* args_t parse_args(int argc, char **argv), argc being the length of argv
parse_args(argv, alloc, wrapped) ==
    IF Len(argv) < 2 THEN [init_args EXCEPT !.error = 1]
    ELSE ArgLoop(init_args, 0, 1, argv, alloc, wrapped)

\* the arguments given: the options, an option there is none of, ports and
\* addresses good and bad
ArgTokens ==
    {Lit("-h"), Lit("--help"), Lit("-l"), Lit("-s"), Lit("--server"), Lit("-c"),
     Lit("--client"), Lit("-ia"), <<"-", "5">>,
     <<"5", "5", "5", "5">>, <<"0">>, <<"6", "5", "5", "3", "6">>,
     <<"a", "b", "c">>, <<"8", "0", "a">>, <<>>,
     <<"h", ":", "8", "0">>, <<"h">>, <<":", "8", "0">>, <<"h", ":">>,
     <<"h", ":", "8", "0", "a">>,
     <<"h", ":", "4", "2", "9", "4", "9", "6", "7", "3", "7", "6">>}

\* argv holds the program's name
ArgsInit ==
    \E argv \in {<<<<"p">>>>} :
      \E s \in {NetState("B", "", INVALID_SOCKET)} :
        /\ Start(s)
        /\ codec = CodecIdle
        /\ peer = NoPeer
        /\ session = NoSession
        /\ ai = NoSearch
        /\ args = [stage |-> "given", argv |-> argv, out |-> init_args]
        /\ click = NoClick
        /\ pre = s
        /\ setup = s
        /\ moved = 0
        /\ stage = "args"
        /\ calls = <<>>

\* the command line is given one more argument, up to MaxArgs of them
GiveArg ==
    /\ stage = "args" /\ args.stage = "given"
    /\ Len(args.argv) <= MaxArgs
    /\ \E tok \in ArgTokens : args' = [args EXCEPT !.argv = Append(@, tok)]
    /\ UNCHANGED <<pieces, piece_count, cell_control, game_over, selected_piece,
                   score_blue, score_red, pieces_blue, pieces_red,
                   current_turn, turn_number, my_color, g_socket, victory, wire,
                   trace, codec, peer, session, ai, click, moved, stage, calls,
                   pre, setup>>

\* main calls parse_args(argc, argv)
ParseArgs ==
    /\ stage = "args" /\ args.stage = "given"
    /\ \E alloc \in BOOLEAN, wrapped \in AtoiWraps :
         args' = [args EXCEPT !.stage = "parsed",
                              !.out = parse_args(args.argv, alloc, wrapped)]
    /\ UNCHANGED <<pieces, piece_count, cell_control, game_over, selected_piece,
                   score_blue, score_red, pieces_blue, pieces_red,
                   current_turn, turn_number, my_color, g_socket, victory, wire,
                   trace, codec, peer, session, ai, click, moved, stage, calls,
                   pre, setup>>

ArgsNext == GiveArg \/ ParseArgs

ArgsSpec == ArgsInit /\ [][ArgsNext]_vars

----------------------------------------------------------------------------
(* void click_to_cell(double x, double y, int *row, int *col,              *)
(*                    GtkWidget *drawing_area)    (src/src/drawing.c)       *)
(* Lengths are counted in half pixels, so that the offsets (width - 400)/2 *)
(* and the clicks are whole numbers; on these values the divisions of the  *)
(* code are exact or far from a whole number, and 400.0 / (400.0 / 9.0) is *)
(* 9.0 in double arithmetic.                                               *)

\* double grid_size = 400.0
GridSize == 400

\* (int) of the quotient n / d of two doubles, d > 0: the fraction is dropped
IntOf(n, d) == IF n >= 0 THEN n \div d ELSE -((-n) \div d)

\* mutant: the far border is outside the grid
OffGrid_FarBorderToo(v, offset) == v < offset \/ v >= offset + 2 * GridSize

\* x < offset_x || x > offset_x + grid_size, and the same for y
OffGrid(v, offset) == v < offset \/ v > offset + 2 * GridSize

\* click_to_cell: *row and *col afterwards; x, y and the offsets in half
\* pixels, cell_size being grid_size / 9.0
click_to_cell(x, y, width, height) ==
    LET offset_x == width - GridSize
        offset_y == height - GridSize
    IN  IF OffGrid(x, offset_x) \/ OffGrid(y, offset_y)
        THEN [row |-> -1, col |-> -1]
        ELSE [col |-> IntOf((x - offset_x) * BoardN, 2 * GridSize),
              row |-> IntOf((y - offset_y) * BoardN, 2 * GridSize)]

\* the widths and heights of the drawing area: that of the grid, wider, odd,
\* narrower
ClickSizes == {400, 500, 401, 300}

\* where a click falls, in half pixels from the near border of the grid:
\* before it, on it, on both sides of two cell borders, in the middle, on
\* the far border and beyond
ClickPlaces == {-1, 0, 1, 88, 89, 400, 711, 712, 799, 800, 801}

ClickInit ==
    \E width \in ClickSizes, height \in ClickSizes :
      \E s \in {NetState("B", "", INVALID_SOCKET)} :
        /\ Start(s)
        /\ codec = CodecIdle
        /\ peer = NoPeer
        /\ session = NoSession
        /\ ai = NoSearch
        /\ args = NoArgs
        /\ click = [stage |-> "shown", width |-> width, height |-> height,
                    x |-> 0, y |-> 0, row |-> -1, col |-> -1]
        /\ pre = s
        /\ setup = s
        /\ moved = 0
        /\ stage = "click"
        /\ calls = <<>>

\* the user clicks and the handler calls click_to_cell(x, y, &row, &col, area)
Click ==
    /\ stage = "click" /\ click.stage \in {"shown", "clicked"}
    /\ \E px \in ClickPlaces, py \in ClickPlaces :
         LET x == click.width - GridSize + px
             y == click.height - GridSize + py
             cell == click_to_cell(x, y, click.width, click.height)
         IN  click' = [click EXCEPT !.stage = "clicked", !.x = x, !.y = y,
                                    !.row = cell.row, !.col = cell.col]
    /\ UNCHANGED <<pieces, piece_count, cell_control, game_over, selected_piece,
                   score_blue, score_red, pieces_blue, pieces_red,
                   current_turn, turn_number, my_color, g_socket, victory, wire,
                   trace, codec, peer, session, ai, args, moved, stage, calls,
                   pre, setup>>

ClickNext == Click

ClickSpec == ClickInit /\ [][ClickNext]_vars

----------------------------------------------------------------------------
(* Vocabulary of the properties.  It is stated on the board (the set of    *)
(* live pieces and the cells they stand on), not on array indices, so that *)
(* it does not repeat the code's own search.                               *)

\* the last call made
Call == calls[Len(calls)]
After(op) == calls # <<>> /\ Call.op = op

\* the live pieces of a state
Live(s) == {s.pieces[i] : i \in 0 .. (s.piece_count - 1)}
\* the live pieces standing on a cell
On(s, rc) == {p \in Live(s) : p.row = rc[1] /\ p.col = rc[2]}
OnBoard(rc) == rc[1] \in Rows /\ rc[2] \in Cols
\* the control of a cell; outside the board there is none
ControlAt(s, rc) == IF OnBoard(rc) THEN s.cell_control[rc[1]][rc[2]] ELSE 0

\* what the last call removed
Removed == Live(pre) \ Live(State)

\* the piece the last call was told has moved
Mover == pre.pieces[Call.moved_index]
Step(rc, v, k) == <<rc[1] + k * v[1], rc[2] + k * v[2]>>
MoverCell == <<Mover.row, Mover.col>>

Directions == {<<-1, 0>>, <<1, 0>>, <<0, -1>>, <<0, 1>>}
\* the order in which check_linca_capture looks: up, down, left, right
Rank(v) == IF v = <<-1, 0>> THEN 0 ELSE IF v = <<1, 0>> THEN 1
           ELSE IF v = <<0, -1>> THEN 2 ELSE 3

\* the enemy pieces sandwiched in direction v: next to the moved piece, with a
\* piece of the mover's color right behind, on a cell of the board (when the
\* moved piece is on the board, so is the cell between the two)
SandwichedIn(v) ==
    {e \in On(pre, Step(MoverCell, v, 1)) :
        /\ e.color # Mover.color
        /\ OnBoard(Step(MoverCell, v, 2))
        /\ \E a \in On(pre, Step(MoverCell, v, 2)) : a.color = Mover.color}
Sandwiched == UNION {SandwichedIn(v) : v \in Directions}
SoldierPatterns == {v \in Directions : \E e \in SandwichedIn(v) : e.type = "P"}
KingPatterns == {v \in Directions : \E e \in SandwichedIn(v) : e.type = "K"}
\* an enemy King is sandwiched in a direction looked at before v
KingBefore(v) == \E w \in KingPatterns : Rank(w) < Rank(v)

Sign(x) == IF x > 0 THEN 1 ELSE IF x < 0 THEN -1 ELSE 0
\* the direction of travel the last check_seltou_capture call was given
Travel == <<Sign(Mover.row - Call.old_row), Sign(Mover.col - Call.old_col)>>
Straight == (Travel[1] = 0) # (Travel[2] = 0)
Candidate == Step(MoverCell, Travel, 1)
Behind == Step(MoverCell, Travel, 2)

\* the colors that have exactly one King and exactly one Soldier alive
Losers(s) ==
    {c \in {"B", "R"} :
        /\ Cardinality({p \in Live(s) : p.color = c /\ p.type = "K"}) = 1
        /\ Cardinality({p \in Live(s) : p.color = c /\ p.type = "P"}) = 1}

\* the last victory signal emitted
LastVictory == victory[Len(victory)]
OneNewVictory == Len(victory) = Len(pre.victory) + 1

\* what the last call added to the trace
NewTrace == SubSeq(trace, Len(pre.trace) + 1, Len(trace))
\* the cells at which the last call wrote cell_control
ControlWrites ==
    {<<NewTrace[i].a, NewTrace[i].b>> : i \in {j \in 1 .. Len(NewTrace) :
                                                  NewTrace[j].ev = "cell_control"}}

----------------------------------------------------------------------------
(* C1 *)

\* C1, as stated: after check_linca_capture(moved_index), every enemy Soldier
\* sandwiched by the moved piece is gone and its cell's control is 0, nothing
\* else is removed, and with exactly one such pattern piece_count drops by one.
C1_Original ==
    After("linca") =>
        /\ \A v \in Directions : \A e \in SandwichedIn(v) :
              e.type = "P" => /\ e \notin Live(State)
                              /\ ControlAt(State, <<e.row, e.col>>) = 0
        /\ Removed \subseteq Sandwiched
        /\ (Cardinality(SoldierPatterns) = 1 => piece_count = pre.piece_count - 1)

\* C1, amended: the same, except that the capture of a sandwiched enemy King
\* ends the call: a sandwiched Soldier is removed (and its cell's control set
\* to 0) unless a King is sandwiched in a direction looked at earlier; only
\* sandwiched enemy pieces are removed; with exactly one sandwiched Soldier and
\* no sandwiched King piece_count drops by exactly one.
C1_LincaRemovesSandwiched ==
    After("linca") =>
        /\ \A v \in Directions : \A e \in SandwichedIn(v) :
              (e.type = "P" /\ ~KingBefore(v)) =>
                  /\ e \notin Live(State)
                  /\ ControlAt(State, <<e.row, e.col>>) = 0
        /\ Removed \subseteq Sandwiched
        /\ (Cardinality(SoldierPatterns) = 1 /\ KingPatterns = {}
               => piece_count = pre.piece_count - 1)

C1_Witness ==
    /\ After("linca")
    /\ Cardinality(SoldierPatterns) = 1 /\ KingPatterns = {}
    /\ piece_count = pre.piece_count - 1
    /\ \E e \in Sandwiched : ControlAt(pre, <<e.row, e.col>>) # 0

----------------------------------------------------------------------------
(* C2 *)

\* C2: after a straight move, an enemy Soldier on the cell of the board ahead
\* of the moved piece whose own next cell is on the board and empty is the one
\* piece that check_seltou_capture removes; its cell's control is 0 and
\* piece_count has dropped by exactly one.
C2_SeltouCapturesUnprotected ==
    (After("seltou") /\ Straight /\ OnBoard(Candidate)) =>
        \A e \in On(pre, Candidate) :
            (/\ e.color # Mover.color /\ e.type = "P"
             /\ OnBoard(Behind) /\ On(pre, Behind) = {})
            => /\ Removed = {e}
               /\ cell_control[e.row][e.col] = 0
               /\ piece_count = pre.piece_count - 1

C2_Witness ==
    /\ After("seltou") /\ Straight /\ OnBoard(Candidate)
    /\ \E e \in On(pre, Candidate) :
          /\ e.color # Mover.color /\ e.type = "P"
          /\ OnBoard(Behind) /\ On(pre, Behind) = {}
          /\ pre.cell_control[e.row][e.col] # 0
          /\ Removed = {e}

----------------------------------------------------------------------------
(* C3 *)

\* C3: check_linca_capture removes the enemy next to the moved piece only if
\* the cell at distance exactly 2 holds a piece of the mover's color; on a
\* line that starts with two enemy pieces it removes nothing, whatever closes
\* the line.
C3_LincaNeedsImmediateBracket ==
    After("linca") =>
        \A v \in Directions :
            /\ \A e \in On(pre, Step(MoverCell, v, 1)) :
                  (e.color # Mover.color /\ e \in Removed) =>
                      \E a \in On(pre, Step(MoverCell, v, 2)) : a.color = Mover.color
            /\ ((\E e \in On(pre, Step(MoverCell, v, 1)) : e.color # Mover.color)
                /\ (\E e \in On(pre, Step(MoverCell, v, 2)) : e.color # Mover.color))
               => \A k \in 1 .. BoardN : On(pre, Step(MoverCell, v, k)) \cap Removed = {}

\* two enemies in a row beside the moved piece, closed by a piece of its color
C3_Witness ==
    /\ After("linca")
    /\ \E v \in Directions :
          /\ \E e \in On(pre, Step(MoverCell, v, 1)) : e.color # Mover.color
          /\ \E e \in On(pre, Step(MoverCell, v, 2)) : e.color # Mover.color
          /\ \E a \in On(pre, Step(MoverCell, v, 3)) : a.color = Mover.color
    /\ Removed = {}

----------------------------------------------------------------------------
(* C4 *)

----------------------------------------------------------------------------
(* C5 *)

\* C5: when check_linca_capture or check_seltou_capture has removed a King,
\* game_over is 1 and the call emitted one victory signal, naming the color of
\* the moved piece as the winner.
C5_KingCaptureEndsGame ==
    ((After("linca") \/ After("seltou")) /\ \E k \in Removed : k.type = "K") =>
        /\ game_over = 1
        /\ OneNewVictory
        /\ LastVictory.blue_won = (Mover.color = "B")

\* a King was captured while its color still had other pieces
C5_Witness ==
    /\ After("linca") \/ After("seltou")
    /\ \E k \in Removed : k.type = "K" /\ \E p \in Live(State) : p.color = k.color
    /\ game_over = 1

----------------------------------------------------------------------------
(* C6 *)

\* C6: check_auto_defeat, called with game_over = 0 while some color has exactly
\* one King and one Soldier alive, sets game_over to 1 and emits one victory
\* signal, for the opponent of such a color; this holds whatever calls came
\* before it.
C6_AutoDefeat ==
    (After("auto") /\ pre.game_over = 0 /\ Losers(pre) # {}) =>
        /\ game_over = 1
        /\ OneNewVictory
        /\ \E c \in Losers(pre) : LastVictory.blue_won = (c = "R")
        /\ pieces = pre.pieces /\ piece_count = pre.piece_count

\* the auto-defeat is found by a call that follows a call which captured nothing
C6_Witness ==
    /\ After("auto") /\ Len(calls) > 1
    /\ pre.game_over = 0 /\ Cardinality(Losers(pre)) = 1
    /\ Live(pre) = Live(setup)
    /\ game_over = 1

----------------------------------------------------------------------------
(* C7 *)

\* C7, as stated: when enemy pieces are sandwiched in two or more directions,
\* one call of check_linca_capture removes the enemy Soldier of every one.
C7_Original ==
    (After("linca") /\ Cardinality(SoldierPatterns \cup KingPatterns) >= 2) =>
        \A v \in Directions : \A e \in SandwichedIn(v) :
            e.type = "P" => e \notin Live(State)

\* C7, amended: one call removes the sandwiched enemy Soldier of every
\* direction that is looked at before a direction in which a King is
\* sandwiched (all of them when no King is sandwiched).
C7_LincaRemovesEveryPattern ==
    (After("linca") /\ Cardinality(SoldierPatterns \cup KingPatterns) >= 2) =>
        \A v \in Directions : \A e \in SandwichedIn(v) :
            (e.type = "P" /\ ~KingBefore(v)) => e \notin Live(State)

\* two Soldiers sandwiched in two directions, both removed by the one call
C7_Witness ==
    /\ After("linca")
    /\ Cardinality(SoldierPatterns) >= 2
    /\ piece_count = pre.piece_count - 2

----------------------------------------------------------------------------
(* C8 *)

\* the piece that really moved, in the position the driver set up
RealMover == setup.pieces[moved]
RealCell == <<RealMover.row, RealMover.col>>
\* the direction of the move given to the first call, check_seltou_capture
RealTravel == <<Sign(RealMover.row - calls[1].old_row),
                Sign(RealMover.col - calls[1].old_col)>>
\* the enemy Soldiers the move flanks: ahead of the moved piece, no piece of
\* their color behind them
Flanked ==
    {e \in On(setup, Step(RealCell, RealTravel, 1)) :
        /\ e.color # RealMover.color /\ e.type = "P"
        /\ ~\E b \in On(setup, Step(RealCell, RealTravel, 2)) : b.color = e.color}
\* the enemy pieces the move sandwiches in direction v
SetupSandwichedIn(v) ==
    {e \in On(setup, Step(RealCell, v, 1)) :
        /\ e.color # RealMover.color
        /\ OnBoard(Step(RealCell, v, 1)) /\ OnBoard(Step(RealCell, v, 2))
        /\ \E a \in On(setup, Step(RealCell, v, 2)) : a.color = RealMover.color}
Sideways == {v \in Directions : v # RealTravel /\ v # <<-RealTravel[1], -RealTravel[2]>>}

\* C8: check_seltou_capture(i, old) followed by check_linca_capture(i), for a
\* straight move that flanks an enemy Soldier ahead and sandwiches an enemy
\* Soldier sideways (no King being sandwiched), removes both Soldiers and
\* removes only pieces of the color opposite to the piece that moved.
C8_SeltouThenLinca ==
    (/\ Len(calls) = 2 /\ calls[1].op = "seltou" /\ calls[2].op = "linca"
     /\ (RealTravel[1] = 0) # (RealTravel[2] = 0)
     /\ Flanked # {}
     /\ \E v \in Sideways : SetupSandwichedIn(v) # {}
     /\ \A v \in Directions : \A e \in SetupSandwichedIn(v) : e.type = "P")
    => /\ \A e \in Flanked : e \notin Live(State)
       /\ \A v \in Sideways : \A e \in SetupSandwichedIn(v) : e \notin Live(State)
       /\ \A p \in Live(setup) \ Live(State) : p.color # RealMover.color

----------------------------------------------------------------------------
(* C9 *)

\* C9: check_seltou_capture changes nothing when the vector from (old_row,
\* old_col) to the moved piece's cell is zero or changes both row and column.
C9_SeltouRejectsNonStraight ==
    (After("seltou") /\ ~Straight) =>
        /\ pieces = pre.pieces
        /\ piece_count = pre.piece_count
        /\ cell_control = pre.cell_control
        /\ game_over = pre.game_over

\* a diagonal vector with an unprotected enemy Soldier on the next diagonal cell
C9_Witness ==
    /\ After("seltou")
    /\ Travel[1] # 0 /\ Travel[2] # 0
    /\ \E e \in On(pre, Candidate) : e.color # Mover.color /\ e.type = "P"
    /\ On(pre, Behind) = {}
    /\ piece_count = pre.piece_count

----------------------------------------------------------------------------
(* C10 *)

\* C10, as stated: check_seltou_capture changes nothing whenever the cell ahead
\* of the moved piece or the cell behind that one lies outside the board.
C10_Original ==
    (After("seltou") /\ Straight /\ (~OnBoard(Candidate) \/ ~OnBoard(Behind))) =>
        /\ pieces = pre.pieces
        /\ piece_count = pre.piece_count
        /\ cell_control = pre.cell_control
        /\ game_over = pre.game_over

\* C10, amended: check_seltou_capture changes nothing when the cell ahead of
\* the moved piece lies outside the board; when only the cell behind that one
\* lies outside the board, an enemy on the board edge counts as unprotected and
\* is removed.
C10_SeltouEdgePolicy ==
    (After("seltou") /\ Straight) =>
        /\ ~OnBoard(Candidate) =>
              /\ pieces = pre.pieces
              /\ piece_count = pre.piece_count
              /\ cell_control = pre.cell_control
              /\ game_over = pre.game_over
        /\ (OnBoard(Candidate) /\ ~OnBoard(Behind)) =>
              \A e \in On(pre, Candidate) :
                  e.color # Mover.color =>
                      /\ Removed = {e}
                      /\ piece_count = pre.piece_count - 1

\* an enemy Soldier on the board edge, captured from the cell next to it
C10_Witness ==
    /\ After("seltou") /\ Straight
    /\ OnBoard(Candidate) /\ ~OnBoard(Behind)
    /\ \E e \in On(pre, Candidate) : e.color # Mover.color /\ e.type = "P"
    /\ piece_count = pre.piece_count - 1

----------------------------------------------------------------------------
(* C11 *)

\* C11: whatever the coordinates of the moved piece and of the cell it came
\* from, on the board or far outside it, every access that
\* check_seltou_capture and check_linca_capture make to cell_control has both
\* indices in 0..8.
C11_ControlIndicesInRange ==
    \A i \in 1 .. Len(trace) :
        trace[i].ev = "cell_control" => trace[i].a \in Rows /\ trace[i].b \in Cols

\* a piece outside the board, given an origin outside the board, sandwiches and
\* captures a Soldier that stands outside the board
C11_Witness ==
    /\ Len(calls) = 2 /\ calls[1].op = "seltou" /\ calls[2].op = "linca"
    /\ ~OnBoard(<<calls[1].old_row, calls[1].old_col>>)
    /\ ~OnBoard(MoverCell)
    /\ \E p \in Removed : p.type = "P" /\ ~OnBoard(<<p.row, p.col>>)

----------------------------------------------------------------------------
(* C12 *)

\* the cells of the board on which the last call captured a piece
CapturedCells == {<<p.row, p.col>> : p \in Removed} \cap (Rows \X Cols)

\* C12: check_linca_capture and check_seltou_capture set cell_control of a cell
\* to 0 exactly when the call captures the piece standing on that cell, be it
\* a King or a Soldier, and leave every other value of cell_control as it was.
C12_ControlClearedIffCaptured ==
    (After("linca") \/ After("seltou")) =>
        /\ ControlWrites = CapturedCells
        /\ \A rc \in CapturedCells : cell_control[rc[1]][rc[2]] = 0
        /\ \A rc \in (Rows \X Cols) \ CapturedCells :
              cell_control[rc[1]][rc[2]] = pre.cell_control[rc[1]][rc[2]]

----------------------------------------------------------------------------
(* C13 *)

\* C13: check_auto_defeat called while game_over is 1 emits no victory signal
\* and changes nothing, also when a color has exactly one King and one Soldier.
C13_AutoDefeatNoopWhenOver ==
    (After("auto") /\ pre.game_over = 1) =>
        /\ victory = pre.victory
        /\ State = pre

\* a King was captured, and a color is left with one King and one Soldier
C13_Witness ==
    /\ After("auto") /\ pre.game_over = 1
    /\ Losers(pre) # {}
    /\ Len(pre.victory) = 1
    /\ victory = pre.victory

----------------------------------------------------------------------------
(* C14 *)

\* C14: when check_linca_capture has captured a piece and the color of that
\* piece is left with exactly one King and one Soldier, game_over is 1 and the
\* last victory signal names the other color as the winner.
C14_LincaRechecksTerminal ==
    After("linca") =>
        \A p \in Removed :
            p.color \in Losers(State) =>
                /\ game_over = 1
                /\ victory # <<>>
                /\ LastVictory.blue_won = (p.color = "R")

----------------------------------------------------------------------------
(* C15 *)

\* the scores and piece counts are those update_scores computes from s
ScoresUpToDate(s) ==
    LET u == update_scores(s)
    IN  /\ s.score_blue = u.score_blue /\ s.score_red = u.score_red
        /\ s.pieces_blue = u.pieces_blue /\ s.pieces_red = u.pieces_red

----------------------------------------------------------------------------
(* C16 *)

\* the live entries of the pieces array, in array order
LiveSeq(s) == [i \in 1 .. s.piece_count |-> s.pieces[i - 1]]

\* a is b with some entries deleted
RECURSIVE IsSubseq(_, _)
IsSubseq(a, b) ==
    IF a = <<>> THEN TRUE
    ELSE IF b = <<>> THEN FALSE
    ELSE IF Head(a) = Head(b) THEN IsSubseq(Tail(a), Tail(b))
    ELSE IsSubseq(a, Tail(b))

----------------------------------------------------------------------------
(* C17 *)

\* C17: for every origin and destination cell of the board, the token made
\* of ('A'+col, '0'+(9-row)) of the origin and of the destination is decoded
\* by the arithmetic of gui_move_piece_callback into these two cells.
C17_TokenRoundTrip ==
    codec.stage = "cells" => codec.out = <<codec.from, codec.to>>

\* the move from (0,0) to (0,1) travels as "A9B9"
C17_Witness ==
    /\ codec.stage = "cells"
    /\ codec.from = <<0, 0>> /\ codec.to = <<0, 1>>
    /\ codec.token = <<65, 57, 66, 57>>
    /\ codec.out = <<<<0, 0>>, <<0, 1>>>>

----------------------------------------------------------------------------
(* C18 *)

\* C18: TCP_Send_Message called with a NULL move, or with a string whose
\* length is not 4, returns -1 and puts no byte on the connection.
C18_SendRejectsBadMove ==
    (After("send") /\ (Call.move.null \/ Len(Call.move.chars) # 4)) =>
        /\ Call.ret = -1
        /\ wire = pre.wire

\* a string of 6 characters is refused on a connection that has just taken
\* the 4 bytes of a move
C18_Witness ==
    /\ Len(calls) = 2 /\ calls[1].op = "send" /\ calls[2].op = "send"
    /\ calls[1].ret = 4 /\ Len(pre.wire) = 4
    /\ ~Call.move.null /\ Len(Call.move.chars) > 4
    /\ Call.sock # INVALID_SOCKET
    /\ Call.ret = -1 /\ wire = pre.wire

----------------------------------------------------------------------------
(* C19 and C20 *)

\* the cells the token of the last callback names
TokenFrom == DecodeFrom(Call.msg)
TokenTo == DecodeTo(Call.msg)
\* a piece of the color to move stands on the origin cell, and can_move
\* accepts the destination for it
Accepted ==
    /\ On(pre, TokenFrom) # {}
    /\ \A p \in On(pre, TokenFrom) : p.color = pre.current_turn
    /\ can_move(pre, find_piece_at(pre, TokenFrom[1], TokenFrom[2]),
                TokenTo[1], TokenTo[2])
\* the checks and the application the last callback made, in order
Reception ==
    LET Step4(e) == e.ev \in {"find_piece_at", "color", "can_move", "move_piece"}
        made == SelectSeq(NewTrace, Step4)
    IN  [i \in 1 .. Len(made) |-> made[i].ev]

\* C19: for a token of 4 characters, gui_move_piece_callback calls move_piece
\* if and only if a piece stands on the decoded origin cell, its color is
\* current_turn and can_move accepts the decoded destination; it looks for
\* the piece, then compares the color, then asks can_move, stopping at the
\* first check that fails, and calls move_piece at most once.
C19_AppliesIffChecksPass ==
    (After("callback") /\ Len(Call.msg) = 4) =>
        /\ Reception = IF Accepted
                        THEN <<"find_piece_at", "color", "can_move", "move_piece">>
                        ELSE IF On(pre, TokenFrom) = {} THEN <<"find_piece_at">>
                        ELSE IF \E p \in On(pre, TokenFrom) : p.color # pre.current_turn
                             THEN <<"find_piece_at", "color">>
                        ELSE <<"find_piece_at", "color", "can_move">>
        /\ Accepted <=> current_turn # pre.current_turn
        /\ Accepted <=> pieces # pre.pieces

\* a second token is applied, after a first one that was applied too
C19_Witness ==
    /\ Len(calls) = 2 /\ calls[1].op = "callback" /\ calls[2].op = "callback"
    /\ setup.game_over = 0 /\ pre.game_over = 0
    /\ pre.current_turn # setup.current_turn
    /\ Accepted
    /\ \E p \in On(State, TokenTo) : p \notin Live(pre)

\* C20: when one of the three checks fails for a token of 4 characters,
\* gui_move_piece_callback sets game_over to 1, emits one victory signal,
\* Blue winning exactly when my_color is 'B', and leaves g_socket equal to
\* INVALID_SOCKET, having closed the socket if it was open.
C20_InvalidMoveEndsMatch ==
    (After("callback") /\ Len(Call.msg) = 4 /\ ~Accepted) =>
        /\ game_over = 1
        /\ OneNewVictory
        /\ LastVictory.blue_won = (my_color = "B")
        /\ g_socket = INVALID_SOCKET
        /\ (pre.g_socket # INVALID_SOCKET) =>
              \E i \in 1 .. Len(NewTrace) :
                  NewTrace[i].ev = "close" /\ NewTrace[i].a = pre.g_socket

\* a token is refused by can_move, the socket being open, and the next token
\* names a piece of the color that is not to move
C20_Witness ==
    /\ Len(calls) = 2 /\ calls[1].op = "callback" /\ calls[2].op = "callback"
    /\ setup.g_socket # INVALID_SOCKET /\ pre.g_socket = INVALID_SOCKET
    /\ pre.pieces = setup.pieces /\ pre.current_turn = setup.current_turn
    /\ Len(pre.trace) = 4
    /\ Reception = <<"find_piece_at", "color">>
    /\ game_over = 1 /\ Len(victory) = 2

----------------------------------------------------------------------------
(* C21 and C22 *)

\* C21: a token of 4 characters that fails one of the three checks of
\* gui_move_piece_callback leaves pieces, piece_count, cell_control,
\* current_turn and turn_number as they were: move_piece is not called and
\* no cell_control entry is written.
C21_RefusedTokenKeepsBoard ==
    (After("callback") /\ Len(Call.msg) = 4 /\ ~Accepted) =>
        /\ pieces = pre.pieces
        /\ piece_count = pre.piece_count
        /\ cell_control = pre.cell_control
        /\ current_turn = pre.current_turn
        /\ turn_number = pre.turn_number
        /\ \A i \in 1 .. Len(NewTrace) :
              NewTrace[i].ev \notin {"move_piece", "cell_control"}

\* a token is applied, and the next one is refused by can_move
C21_Witness ==
    /\ Len(calls) = 2 /\ calls[1].op = "callback" /\ calls[2].op = "callback"
    /\ pre.pieces # setup.pieces /\ pre.turn_number = setup.turn_number + 1
    /\ Len(Call.msg) = 4 /\ ~Accepted
    /\ Reception = <<"find_piece_at", "color", "can_move">>
    /\ pieces = pre.pieces /\ turn_number = pre.turn_number
    /\ game_over = 1

\* C22: gui_move_piece_callback given a payload whose length is not 4
\* decodes nothing and leaves the whole program state as it was.
C22_WrongLengthIsIgnored ==
    (After("callback") /\ Len(Call.msg) # 4) => State = pre

\* a token is applied, and the payload after it has 5 characters
C22_Witness ==
    /\ Len(calls) = 2 /\ calls[1].op = "callback" /\ calls[2].op = "callback"
    /\ pre.pieces # setup.pieces
    /\ Len(Call.msg) = 5
    /\ State = pre /\ game_over = 0 /\ g_socket # INVALID_SOCKET

----------------------------------------------------------------------------
(* Vocabulary of the session properties *)

Last(q) == q[Len(q)]
\* the board of a program state
BoardOf(s) ==
    [pieces |-> s.pieces, piece_count |-> s.piece_count,
     cell_control |-> s.cell_control, current_turn |-> s.current_turn,
     game_over |-> s.game_over]
Board == <<pieces, piece_count, cell_control, current_turn, game_over>>
BoardNames == {"pieces", "piece_count", "cell_control", "current_turn", "game_over"}
\* the thread has read a failure
FailedRead == session.reads # <<>> /\ Last(session.reads) <= 0
\* the thread has left its loop
ThreadOver == session.thread \in {"finished", "joined"}
\* the bytes the thread has taken from the connection
Consumed == Len(session.sent) - Len(session.bytes)
\* the k-th group of 4 bytes the other end has sent
Group(k) == SubSeq(session.sent, 4 * (k - 1) + 1, 4 * k)
\* this end's session is set up
InSession == session.main \in {"gui", "join", "returned", "stuck"}
\* the accept calls of this end so far
Accepts == {i \in 1 .. Len(trace) : trace[i].ev = "accept"}

----------------------------------------------------------------------------
(* C23 *)

\* C23: a step of the thread running server_loop or client_loop leaves
\* pieces, piece_count, cell_control, current_turn and game_over unchanged,
\* also when its read fails, and the thread reads none of them; they change
\* only in a step of the main thread that runs the callback queued first, on
\* the token queued with it.
C23_BoardOnlyThroughCallback ==
    [][/\ session'.actor = "net" =>
            /\ UNCHANGED Board
            /\ session'.touched \cap BoardNames = {}
       /\ Board' # Board =>
            /\ session'.actor = "main"
            /\ session.queue # <<>>
            /\ calls' = Append(calls, [op |-> "callback", msg |-> Head(session.queue)])
            /\ session'.queue = Tail(session.queue)]_vars

\* the thread's read fails on a reset connection after a token it queued was
\* applied to the board
C23_Witness ==
    /\ session.actor = "net" /\ session.thread = "finished"
    /\ session.reads = <<4, -1>> /\ session.conn = "reset"
    /\ session.processed = <<g_strdup(session.received[1])>>
    /\ pieces # setup.pieces /\ game_over = 0

----------------------------------------------------------------------------
(* C24 *)

\* C24: the payloads of the callbacks that have run, followed by those still
\* queued, are the strings of the tokens the thread has read, in the order
\* in which they were read: a token is handed to one callback, callbacks run
\* in the order of the tokens, and no callback runs twice.
C24_TokensInOrderOnce ==
    session.processed \o session.queue =
        [k \in 1 .. Len(session.received) |-> g_strdup(session.received[k])]

\* two different tokens were read before the first was processed; the first
\* has been processed, the second is queued
C24_Witness ==
    /\ Len(session.received) = 2 /\ session.received[1] # session.received[2]
    /\ session.processed = <<session.received[1]>>
    /\ session.queue = <<session.received[2]>>
    /\ pre.pieces = setup.pieces /\ pieces # setup.pieces

----------------------------------------------------------------------------
(* C25 *)

\* C25: when both ends started from the same board and every token sent so
\* far is the token of a move the sender's legality checker accepted and the
\* sender applied, then after this end has processed k of them its pieces,
\* piece_count, cell_control, current_turn and game_over are those the
\* sender had after its k-th move.
C25_ReceiverFollowsSender ==
    (session.honest /\ session.processed # <<>>) =>
        BoardOf(State) = BoardOf(session.moves[Len(session.processed)])

\* two moves of the other end were processed, one of which captured a piece
C25_Witness ==
    /\ session.honest /\ Len(session.processed) = 2
    /\ piece_count < setup.piece_count
    /\ turn_number = setup.turn_number + 2
    /\ BoardOf(State) = BoardOf(peer)

----------------------------------------------------------------------------
(* C26 *)

\* C26: recv_move returns 4 or a value <= 0; the k-th token it delivered is
\* bytes 4k-3 .. 4k of the bytes sent, however many calls of recv brought
\* them; until a read fails the thread has taken exactly 4 bytes per token,
\* and a read that fails has taken fewer than 4 bytes.
C26_RecvMoveReadsWholeTokens ==
    /\ \A k \in 1 .. Len(session.reads) :
          session.reads[k] = 4 \/ session.reads[k] <= 0
    /\ Len(session.received) =
          Cardinality({k \in 1 .. Len(session.reads) : session.reads[k] = 4})
    /\ \A k \in 1 .. Len(session.received) : session.received[k] = Group(k)
    /\ IF FailedRead THEN Consumed - 4 * Len(session.received) \in 0 .. 3
       ELSE Consumed = 4 * Len(session.received)

\* 2 bytes and then a token were sent: the second read brought the token in
\* three calls of recv, and the token delivered straddles the two
C26_Witness ==
    /\ Len(session.sent) = 6 /\ session.bytes = <<>>
    /\ session.reads = <<4, 0>> /\ session.split = 3
    /\ session.received = <<SubSeq(session.sent, 1, 4)>>
    /\ session.conn = "eof"

----------------------------------------------------------------------------
(* C27 *)

\* C27: once recv_move has returned a value <= 0 the thread has left its
\* loop and ctx.running is 0; a thread that has left its loop reads nothing
\* more and queues nothing more.
C27_FailedReadEndsLoop ==
    /\ [](FailedRead => (ThreadOver /\ session.running = 0))
    /\ [][ThreadOver =>
            /\ session'.reads = session.reads
            /\ session'.received = session.received
            /\ Len(session'.queue) <= Len(session.queue)]_vars

\* the other end closed the connection after a token; the thread has left
\* its loop while the main loop still runs, and the token was processed
C27_Witness ==
    /\ session.reads = <<4, 0>> /\ session.conn = "eof"
    /\ session.thread = "finished" /\ session.running = 0
    /\ session.main = "gui" /\ Len(session.processed) = 1

----------------------------------------------------------------------------
(* C28 *)

\* C28: run_server and run_client return only after the thread they started
\* has returned and was joined; once start_gui has returned and the
\* connection is shut down, the thread leaves its loop and the function
\* returns.
C28_ThreadJoinedBeforeReturn ==
    /\ [](session.main = "returned" => session.thread \in {"joined", "none"})
    /\ (session.main = "join" /\ session.thread # "none")
          ~> (session.main = "returned" /\ session.thread = "joined")

\* the thread was waiting for bytes on an open connection when start_gui
\* returned; its read returned 0 and it was joined
C28_Witness ==
    /\ session.main = "returned" /\ session.thread = "joined"
    /\ session.conn = "open" /\ session.bytes = <<>>
    /\ session.reads = <<4, 0>>
    /\ Len(session.processed) = 1

----------------------------------------------------------------------------
(* C29 *)

\* C29: once the session is set up, this end has my_color 'R' if it ran
\* run_server and 'B' if it ran run_client, the other end has the other
\* color, my_color is what it was when start_gui was entered, and the
\* listening end has called accept once and closed the listening socket.
C29_PeersHoldDifferentColors ==
    InSession =>
        /\ my_color = (IF session.role = "server" THEN "R" ELSE "B")
        /\ peer.my_color = (IF session.role = "server" THEN "B" ELSE "R")
        /\ my_color # peer.my_color
        /\ my_color = setup.my_color
        /\ session.role = "server" =>
              /\ Cardinality(Accepts) = 1
              /\ \A i \in Accepts : /\ Closed(State, trace[i].a)
                                     /\ trace[i].a # g_socket
                                     /\ trace[i].b = session.s

\* the listening end has played a match in which a token was applied and
\* another refused, and its function has returned
C29_Witness ==
    /\ session.role = "server" /\ session.main = "returned"
    /\ my_color = "R" /\ peer.my_color = "B"
    /\ pieces # setup.pieces /\ game_over = 1
    /\ Len(session.processed) = 2

----------------------------------------------------------------------------
(* C30 *)

----------------------------------------------------------------------------
(* C31 *)

\* the moves the rules allow the side to move in the GameState the search
\* was given: a piece of that side and a cell it can reach
Playable ==
    {x \in (0 .. (ai.given.piece_count - 1)) \X (Rows \X Cols) :
        can_move(Embed(ai.given), x[1], x[2][1], x[2][2])}

C31_NoMoveWitness ==
    /\ ai.stage = "done" /\ Playable = {} /\ ai.best_move = NoMove

----------------------------------------------------------------------------
(* C32 *)

\* the command line of the last parse_args call, without the program's name
Given == Tail(args.argv)
IsOption(tok, names) == tok \in {Lit(n) : n \in names}
IsOperand(tok) == tok = <<>> \/ tok[1] # "-"
\* a decimal numeral
Numeric(tok) == tok # <<>> /\ \A k \in 1 .. Len(tok) : tok[k] \in Digits
\* no option of the command line names a mode
NoModeGiven ==
    \A k \in 1 .. Len(Given) :
        ~IsOption(Given[k], {"-l", "--local", "-s", "--server", "-c", "--client"})
\* the operand that follows the server option is not a number
NonNumericServerPort ==
    \E k \in 1 .. (Len(Given) - 1) :
        /\ IsOption(Given[k], {"-s", "--server"})
        /\ IsOperand(Given[k + 1]) /\ ~Numeric(Given[k + 1])
\* the operand that follows the client option has no ':'
AddressWithoutPort ==
    \E k \in 1 .. (Len(Given) - 1) :
        /\ IsOption(Given[k], {"-c", "--client"})
        /\ IsOperand(Given[k + 1])
        /\ \A j \in 1 .. Len(Given[k + 1]) : Given[k + 1][j] # ":"
\* one of the faults the claim lists
Faulty == Given = <<>> \/ NoModeGiven \/ NonNumericServerPort \/ AddressWithoutPort

\* what args_t holds of a complete configuration; the host is a string
CompleteBut(a) ==
    /\ a.mode \in {"MODE_LOCAL", "MODE_SERVER", "MODE_CLIENT"}
    /\ a.mode = "MODE_SERVER" => a.port \in 1 .. PortMax
    /\ a.mode = "MODE_CLIENT" => (~a.host.null /\ a.port \in 1 .. PortMax)

C32_RefusedWitness ==
    /\ args.stage = "parsed" /\ NonNumericServerPort
    /\ args.out.help = 0 /\ args.out.error = 1 /\ args.out.mode = "MODE_SERVER"

----------------------------------------------------------------------------
(* C33 *)

\* the last click, in half pixels from the left and the top border of the grid
ClickAt == <<click.x - (click.width - GridSize), click.y - (click.height - GridSize)>>
\* the click is on the grid, its borders included
OnGrid == \A k \in {1, 2} : ClickAt[k] >= 0 /\ ClickAt[k] <= 2 * GridSize

\* C33: after click_to_cell, row = col = -1 when the click is outside the
\* 400-pixel grid; otherwise (clicks on the right and the bottom border
\* included) row and col are both in 0..8.
C33_ClickYieldsCellOrNone ==
    click.stage = "clicked" =>
        /\ ~OnGrid => (click.row = -1 /\ click.col = -1)
        /\ OnGrid => (click.row \in Rows /\ click.col \in Cols)

----------------------------------------------------------------------------
(* C34 *)

\* the directions in which the last call removed a King
KingTaken == {v \in KingPatterns : \E e \in SandwichedIn(v) : e.type = "K" /\ e \in Removed}

\* C34: when check_linca_capture has captured a King, the match is over, the
\* pieces sandwiched in the directions that come after the King's in the
\* order up, down, left, right are all still on the board, and the Soldiers
\* sandwiched in the directions that come before it are removed (with the
\* King, they are all the call removed).
C34_LincaReturnsAtKing ==
    After("linca") =>
        \A v \in KingTaken :
            /\ game_over = 1
            /\ \A w \in Directions :
                  /\ Rank(w) > Rank(v) => SandwichedIn(w) \subseteq Live(State)
                  /\ Rank(w) < Rank(v) => SandwichedIn(w) \cap Live(State) = {}
            /\ Removed = UNION {SandwichedIn(w) : w \in {u \in Directions : Rank(u) <= Rank(v)}}

\* a King taken while a Soldier sandwiched in a later direction stays
C34_Witness ==
    /\ After("linca")
    /\ \E v \in KingTaken : \E w \in SoldierPatterns :
          Rank(w) > Rank(v) /\ SandwichedIn(w) \subseteq Live(State)
    /\ piece_count = pre.piece_count - 1

\* a King taken after a Soldier sandwiched in an earlier direction
C34_EarlierWitness ==
    /\ After("linca")
    /\ \E v \in KingTaken : \E w \in SoldierPatterns :
          Rank(w) < Rank(v) /\ SandwichedIn(w) \cap Live(State) = {}
    /\ piece_count = pre.piece_count - 2

----------------------------------------------------------------------------
(* C35 *)

\* C35: check_linca_capture returns, and it has removed only pieces that
\* were sandwiched when the call began, at most one in each of the four
\* directions, so that piece_count has dropped by four at most.
C35_LincaRemovesOnePerDirection ==
    After("linca") =>
        /\ Removed \subseteq Sandwiched
        /\ \A v \in Directions :
              Cardinality(Removed \cap On(pre, Step(MoverCell, v, 1))) <= 1
        /\ pre.piece_count - piece_count = Cardinality(Removed)
        /\ pre.piece_count - piece_count <= Cardinality(Directions)

\* the scan, restarted after a first capture, has made a second one in a
\* direction that comes later
C35_Witness ==
    /\ After("linca")
    /\ \E v \in SoldierPatterns, w \in SoldierPatterns :
          /\ Rank(v) >= 1 /\ Rank(w) > Rank(v)
          /\ (SandwichedIn(v) \cup SandwichedIn(w)) \cap Live(State) = {}
    /\ pre.piece_count - piece_count = 2

----------------------------------------------------------------------------
(* C36 *)

\* C36: a call of check_linca_capture or check_seltou_capture made when
\* game_over is 1 leaves pieces, piece_count and cell_control as they were
\* and signals no victory.
C36_NoCaptureOnceOver ==
    ((After("linca") \/ After("seltou")) /\ pre.game_over = 1) =>
        /\ pieces = pre.pieces
        /\ piece_count = pre.piece_count
        /\ cell_control = pre.cell_control
        /\ victory = pre.victory

----------------------------------------------------------------------------
(* C37 *)

\* C37: after a call of check_seltou_capture, check_linca_capture or
\* check_auto_defeat, selected_piece is -1, or it is an index below
\* piece_count at which stands the piece that was selected before the call.
C37_SelectionFollowsPiece ==
    calls # <<>> =>
        \/ selected_piece = -1
        \/ /\ pre.selected_piece >= 0
           /\ selected_piece >= 0 /\ selected_piece < piece_count
           /\ pieces[selected_piece] = pre.pieces[pre.selected_piece]

----------------------------------------------------------------------------
(* C38 *)

\* C38: when gui_move_piece_callback has applied the move of a token, the
\* piece it moved is not of the local player's color my_color.
C38_PeerNeverMovesLocalColor ==
    (After("callback") /\ pieces # pre.pieces) =>
        \A p \in On(pre, TokenFrom) : p.color # pre.my_color

----------------------------------------------------------------------------
(* C39 *)

\* C39: a token that gui_move_piece_callback is given when game_over is 1
\* leaves pieces, piece_count, cell_control and current_turn as they were,
\* and the winner that the last victory signal names stays the same.
C39_QueuedTokensIgnoredOnceOver ==
    (After("callback") /\ pre.game_over = 1) =>
        /\ BoardOf(State) = BoardOf(pre)
        /\ pre.victory # <<>> => LastVictory.blue_won = Last(pre.victory).blue_won

----------------------------------------------------------------------------
(* C40 *)

\* the times the socket of the session was closed
Closings(sock) == {i \in 1 .. Len(trace) : trace[i].ev = "close" /\ trace[i].a = sock}

\* C40: the socket of the connection (the one accept or connect returned) is
\* closed at most once in a session.
C40_SocketClosedAtMostOnce ==
    InSession => Cardinality(Closings(session.s)) <= 1

====
